---------------------------- MODULE Spec2Model ----------------------------
(***************************************************************************)
(* A model of gh_autograder_fetcher: the resolution of CI runs into        *)
(* grades (src/src/fetcher.rs), the workflow parser (src/src/parser) and   *)
(* the collaborator calls it consumes (src/src/api).                       *)
(*                                                                         *)
(* Conventions.  Option<T> is a sequence: <<>> is None, <<x>> is Some(x).  *)
(* Result<T> is a record [ok, val].  A Rust String whose characters the    *)
(* code inspects is a sequence of one-character strings.  DateTime<Utc>    *)
(* is an integer (only its order is used).                                 *)
(***************************************************************************)
EXTENDS Integers, Sequences, FiniteSets, TLC

VARIABLES
    \* ---- the collaborators' answers (fixed during one behaviour) ----
    assignment_response,  \* Result of ClassroomClient::get_assignment
    accepted_response,    \* Result of ClassroomClient::list_accepted_assignments
    workflow_response,    \* Result of GitHubClient::get_file_contents + serde_yaml
    runs_response,        \* per roster position: Result of list_workflow_runs
    jobs_response,        \* per roster position: Result of list_jobs_for_run
    logs_response,        \* per roster position: Result of get_job_logs
    deadline,             \* Option<DateTime<Utc>> handed to fetch_all_results
    progress_callback,    \* Option<Box<dyn Fn(usize, usize, &str)>>: TRUE when Some
    classrooms_response,  \* Result of ClassroomClient::list_classrooms
    assignments_response, \* Result of ClassroomClient::list_assignments
    repository_runs,      \* per roster position: the runs GitHub holds that match the query
    yaml_content,         \* Option: the workflow file's content, as the YAML document it is
    endpoint,             \* the listing method of ClassroomClient that is called
    page_responses,       \* what the Classroom API holds and how its requests fail
    \* ---- fetch_all_results ----
    pc,                   \* the await point the batch is at
    ret,                  \* "running", "Ok" or "Err": what fetch_all_results returned
    accepted_assignments, \* local: the roster
    test_definitions,     \* local: Vec<TestDefinition>
    index,                \* the loop's enumerate() index (0-based)
    results,              \* local: Vec<StudentResult>
    \* ---- fetch_student_results (locals of the call in progress / last call) ----
    student_ret,          \* "none", "running", "Ok" or "Err"
    run,                  \* Option<WorkflowRun>: target_run
    autograding_job,      \* Option<Job>
    tests,                \* IndexMap<String, TestResult>, as a sequence of entries
    scored,               \* how many test_definitions the loop of lines 160-186 has done
    total_awarded,        \* u32
    \* ---- parse_points_from_summary ----
    summary,              \* its argument
    points,               \* its return value, Option<u32>
    \* ---- what the outside saw, in order ----
    trace,                \* the collaborator calls made and the progress callbacks
    \* ---- the late-grading combination (spec.md 4.6) ----
    on_time_results,      \* the batch resolved with the on-time deadline
    late_results,         \* the batch resolved with the late deadline
    late_penalty,         \* the penalty fraction p, in units of 1/PenaltyUnit
    late_grading_results, \* the combined records, Vec<LateGradingResult>
    \* ---- ui/app.rs ----
    state,                \* App::state, an AppState
    \* ---- export.rs ----
    csv_file,             \* Option: the records written to the CSV file, header first
    \* ---- api/classroom.rs: the listing in progress ----
    page,                 \* local: the page requested next
    retries,              \* local of list_accepted_assignments: attempts left for the page
    all_items,            \* local: all_classrooms / all_assignments / all_accepted
    list_ret,             \* Option<Result<Vec<_>>>: what the listing returned
    \* ---- ui/app.rs: the event loop and the terminal ----
    pressed,              \* how many keys the user has pressed so far
    key_events,           \* the key events the terminal holds, oldest first
    screen                \* Option<AppState>: what the last terminal.draw rendered

vars == <<assignment_response, accepted_response, workflow_response,
          runs_response, jobs_response, logs_response, deadline, progress_callback,
          pc, ret, accepted_assignments, test_definitions, index, results,
          student_ret, run, autograding_job, tests, scored, total_awarded,
          summary, points, trace,
          on_time_results, late_results, late_penalty, late_grading_results, state,
          csv_file, endpoint, page_responses, page, retries, all_items, list_ret,
          classrooms_response, assignments_response, repository_runs, yaml_content,
          pressed, key_events, screen>>

envVars == <<assignment_response, accepted_response, workflow_response,
             runs_response, jobs_response, logs_response, deadline, progress_callback,
             endpoint, page_responses, classrooms_response, assignments_response,
             repository_runs, yaml_content>>

batchVars == <<pc, ret, accepted_assignments, test_definitions, index, results>>

studentVars == <<student_ret, run, autograding_job, tests, scored, total_awarded>>

parseVars == <<summary, points>>

lateVars == <<on_time_results, late_results, late_penalty, late_grading_results>>

uiVars == <<state, csv_file>>

listVars == <<page, retries, all_items, list_ret>>

loopVars == <<pressed, key_events, screen>>

-----------------------------------------------------------------------------
(* Bounds of the model *)

MaxStudents == 2
MaxRuns == 2
MaxTime == 3
MaxDefs == 2
MaxSteps == 2
MaxLogPieces == 4
MaxWorkflowSteps == 2

-----------------------------------------------------------------------------
(* Generic helpers *)

None == <<>>
Some(x) == <<x>>
IsSome(o) == Len(o) > 0
Unwrap(o) == o[1]

Ok(v) == [ok |-> TRUE, val |-> v]
Err == [ok |-> FALSE, val |-> <<>>]
\* an error that carries its message
Failed(message) == [ok |-> FALSE, val |-> message]

SeqsUpTo(S, n) == UNION {[1..k -> S] : k \in 0..n}
SeqsFromTo(S, m, n) == UNION {[1..k -> S] : k \in m..n}

MinOf(S) == CHOOSE x \in S : \A y \in S : x <= y
MaxOf(S) == CHOOSE x \in S : \A y \in S : x >= y

RECURSIVE SumSeq(_)
SumSeq(s) == IF s = <<>> THEN 0 ELSE s[1] + SumSeq(Tail(s))

RECURSIVE Concat(_)
Concat(ss) == IF ss = <<>> THEN <<>> ELSE ss[1] \o Concat(Tail(ss))

-----------------------------------------------------------------------------
(* Rust str primitives, on sequences of characters *)

Whitespace == {" ", "\n", "\t", "\r"}
Digit == {"0", "1", "2", "3", "4", "5", "6", "7", "8", "9"}
DigitVal(c) == CASE c = "0" -> 0 [] c = "1" -> 1 [] c = "2" -> 2 [] c = "3" -> 3
                 [] c = "4" -> 4 [] c = "5" -> 5 [] c = "6" -> 6 [] c = "7" -> 7
                 [] c = "8" -> 8 [] c = "9" -> 9

\* str::find(pat): the 1-based start of the first match, 0 for None
Find(s, pat) ==
    LET hits == {i \in 1..(Len(s) - Len(pat) + 1) : SubSeq(s, i, i + Len(pat) - 1) = pat}
    IN IF hits = {} THEN 0 ELSE MinOf(hits)

\* str::split(sep) for a one-character separator: always at least one piece
RECURSIVE Split(_, _)
Split(s, sep) ==
    LET at == Find(s, <<sep>>)
    IN IF at = 0 THEN <<s>>
       ELSE <<SubSeq(s, 1, at - 1)>> \o Split(SubSeq(s, at + 1, Len(s)), sep)

\* str::lines(): split at "\n", no final empty line; the "\r" of a "\r\n" is removed
StripCr(l) == IF Len(l) > 0 /\ l[Len(l)] = "\r" THEN SubSeq(l, 1, Len(l) - 1) ELSE l
Lines(s) ==
    LET raw == Split(s, "\n")
        kept == IF raw[Len(raw)] = <<>> THEN SubSeq(raw, 1, Len(raw) - 1) ELSE raw
    IN [i \in 1..Len(kept) |-> IF i < Len(raw) THEN StripCr(kept[i]) ELSE kept[i]]

\* str::trim()
RECURSIVE TrimStart(_)
TrimStart(s) == IF s # <<>> /\ s[1] \in Whitespace THEN TrimStart(Tail(s)) ELSE s
RECURSIVE TrimEnd(_)
TrimEnd(s) ==
    IF s # <<>> /\ s[Len(s)] \in Whitespace THEN TrimEnd(SubSeq(s, 1, Len(s) - 1)) ELSE s
Trim(s) == TrimEnd(TrimStart(s))

\* str::split_whitespace(): the non-empty maximal runs of non-whitespace
RECURSIVE TakeToken(_)
TakeToken(s) ==
    IF s = <<>> \/ s[1] \in Whitespace THEN <<>> ELSE <<s[1]>> \o TakeToken(Tail(s))
RECURSIVE SplitWhitespace(_)
SplitWhitespace(s) ==
    LET t == TrimStart(s)
        tok == TakeToken(t)
    IN IF t = <<>> THEN <<>>
       ELSE <<tok>> \o SplitWhitespace(SubSeq(t, Len(tok) + 1, Len(t)))

\* Iterator::last()
LastOf(s) == IF s = <<>> THEN None ELSE Some(s[Len(s)])

\* u32::MAX = 4294967295, as its decimal digits (TLC's integers are 32-bit signed)
U32MaxDigits == <<"4", "2", "9", "4", "9", "6", "7", "2", "9", "5">>

RECURSIVE StripZeros(_)
StripZeros(ds) == IF Len(ds) > 1 /\ ds[1] = "0" THEN StripZeros(Tail(ds)) ELSE ds

\* a > b for two digit strings of the same length
DigitsGreater(a, b) ==
    \E i \in 1..Len(a) :
        /\ DigitVal(a[i]) > DigitVal(b[i])
        /\ \A j \in 1..(i - 1) : a[j] = b[j]

\* the checked multiply-and-add of from_str_radix overflows
OverflowsU32(ds) ==
    LET sig == StripZeros(ds)
    IN \/ Len(sig) > Len(U32MaxDigits)
       \/ Len(sig) = Len(U32MaxDigits) /\ DigitsGreater(sig, U32MaxDigits)

RECURSIVE DigitsValue(_, _)
DigitsValue(ds, acc) ==
    IF ds = <<>> THEN acc ELSE DigitsValue(Tail(ds), acc * 10 + DigitVal(ds[1]))

\* str::parse::<u32>(): an optional "+", then one or more digits, value <= u32::MAX
ParseU32(tok) ==
    LET ds == IF tok # <<>> /\ tok[1] = "+" THEN Tail(tok) ELSE tok
    IN IF ds = <<>> \/ (\E i \in 1..Len(ds) : ds[i] \notin Digit) THEN None
       ELSE IF OverflowsU32(ds) THEN None
       ELSE Some(DigitsValue(ds, 0))

-----------------------------------------------------------------------------
(* fetcher.rs: parse_points_from_summary *)

PointsWord == <<"P", "o", "i", "n", "t", "s">>

\* before_slash.split_whitespace().last() then parse::<u32>()
TokenBeforeSlash(before_slash) ==
    LET num_str == LastOf(SplitWhitespace(before_slash))
    IN IF IsSome(num_str) THEN ParseU32(Unwrap(num_str)) ELSE None

\* lines 22-34: the "Points XX/YY" pattern
PointsPattern(s) ==
    LET points_idx == Find(s, PointsWord)
        after_points == SubSeq(s, points_idx + 6, Len(s))
        slash_idx == Find(after_points, <<"/">>)
    IN IF points_idx = 0 \/ slash_idx = 0 THEN None
       ELSE TokenBeforeSlash(Trim(SubSeq(after_points, 1, slash_idx - 1)))

\* mutant of SlashPattern: only the first line that contains "/" is tried
SlashPattern_FirstSlashLineOnly(ls) ==
    LET hits == {i \in 1..Len(ls) : Find(ls[i], <<"/">>) # 0}
    IN IF hits = {} THEN None
       ELSE LET line == ls[MinOf(hits)]
            IN TokenBeforeSlash(SubSeq(line, 1, Find(line, <<"/">>) - 1))

\* lines 37-48: the loop over summary.lines()
RECURSIVE SlashPattern(_)
SlashPattern(ls) ==
    IF ls = <<>> THEN None
    ELSE LET line == ls[1]
             slash_idx == Find(line, <<"/">>)
             got == IF slash_idx = 0 THEN None
                    ELSE TokenBeforeSlash(SubSeq(line, 1, slash_idx - 1))
         IN IF IsSome(got) THEN got ELSE SlashPattern(Tail(ls))

ParsePointsFromSummary(s) ==
    IF IsSome(PointsPattern(s)) THEN PointsPattern(s) ELSE SlashPattern(Lines(s))

-----------------------------------------------------------------------------
(* fetcher.rs: parse_repo_url *)

ParseRepoUrl(full_name) ==
    LET parts == Split(full_name, "/")
    IN IF Len(parts) >= 2 THEN <<parts[1], parts[2]>> ELSE << <<>>, <<>> >>

\* mutant of InvalidRepository: only the owner is looked at
InvalidRepository_OwnerOnly(full_name) == ParseRepoUrl(full_name)[1] = <<>>

InvalidRepository(full_name) ==
    LET owner == ParseRepoUrl(full_name)[1]
        repo == ParseRepoUrl(full_name)[2]
    IN owner = <<>> \/ repo = <<>>

\* student.students.first().map(|s| s.login).unwrap_or("unknown")
Username(student) ==
    IF student.students = <<>> THEN "unknown" ELSE student.students[1]

-----------------------------------------------------------------------------
(* fetcher.rs: fetch_student_results, the run selection (lines 119-133) *)

\* .filter(|r| r.conclusion.is_some())
Concluded(rs) == SelectSeq(rs, LAMBDA r : IsSome(r.conclusion))

\* Iterator::min_by_key(|r| r.created_at): the first of several equal minima
MinByCreatedAt(best, rest) ==
    LET all == <<best>> \o rest
        least == MinOf({all[i].created_at : i \in 1..Len(all)})
    IN all[MinOf({i \in 1..Len(all) : all[i].created_at = least})]

\* Iterator::max_by_key(|r| r.created_at): the last of several equal maxima
MaxByCreatedAt(best, rest) ==
    LET all == <<best>> \o rest
        greatest == MaxOf({all[i].created_at : i \in 1..Len(all)})
    IN all[MaxOf({i \in 1..Len(all) : all[i].created_at = greatest})]

\* mutants of TargetRun: the latest run whatever the deadline; no conclusion filter
TargetRun_AlwaysLatest(workflow_runs, dl) ==
    LET done == Concluded(workflow_runs)
    IN IF done = <<>> THEN None ELSE Some(MaxByCreatedAt(done[1], Tail(done)))
TargetRun_NoFilter(workflow_runs, dl) ==
    IF workflow_runs = <<>> THEN None
    ELSE IF IsSome(dl) THEN Some(MinByCreatedAt(workflow_runs[1], Tail(workflow_runs)))
         ELSE Some(MaxByCreatedAt(workflow_runs[1], Tail(workflow_runs)))

\* mutant of TargetRun: among equally early or late runs the choice follows the iteration
\* order of an unordered collection, which differs from one call to the next
TargetRun_UnstableTies(workflow_runs, dl) ==
    LET done == Concluded(workflow_runs)
        times == {done[i].created_at : i \in 1..Len(done)}
        extreme == IF IsSome(dl) THEN MinOf(times) ELSE MaxOf(times)
        ties == {i \in 1..Len(done) : done[i].created_at = extreme}
    IN IF done = <<>> THEN None
       ELSE Some(done[IF index % 2 = 0 THEN MinOf(ties) ELSE MaxOf(ties)])

\* mutant of TargetRun: without a concluded run, the first listed run is taken
TargetRun_FirstListed(workflow_runs, dl) ==
    LET done == Concluded(workflow_runs)
    IN IF done = <<>> THEN (IF workflow_runs = <<>> THEN None ELSE Some(workflow_runs[1]))
       ELSE IF IsSome(dl) THEN Some(MinByCreatedAt(done[1], Tail(done)))
            ELSE Some(MaxByCreatedAt(done[1], Tail(done)))

TargetRun(workflow_runs, dl) ==
    LET done == Concluded(workflow_runs)
    IN IF done = <<>> THEN None
       ELSE IF IsSome(dl) THEN Some(MinByCreatedAt(done[1], Tail(done)))
            ELSE Some(MaxByCreatedAt(done[1], Tail(done)))

-----------------------------------------------------------------------------
(* fetcher.rs: fetch_student_results, the step scores (lines 149-190) *)

AutogradingJobName == "run-autograding-tests"

\* mutant of FindJob: the first job of the run, whatever its name
FindJob_FirstJob(jobs) == IF jobs = <<>> THEN None ELSE Some(jobs[1])

\* jobs.into_iter().find(|j| j.name == "run-autograding-tests")
FindJob(jobs) ==
    LET hits == {i \in 1..Len(jobs) : jobs[i].name = AutogradingJobName}
    IN IF hits = {} THEN None ELSE Some(jobs[MinOf(hits)])

\* autograding_job.steps.iter().find(|s| s.name == test_def.name)
FindStep(steps, name) ==
    LET hits == {i \in 1..Len(steps) : steps[i].name = name}
    IN IF hits = {} THEN None ELSE Some(steps[MinOf(hits)])

\* mutant of StepScore: only a "failure" loses the points
StepScore_FailureOnly(step, test_def) ==
    IF ~IsSome(step) THEN <<0, FALSE>>
    ELSE IF Unwrap(step).conclusion = Some("failure") THEN <<0, FALSE>>
    ELSE <<test_def.max_score, TRUE>>

\* the match on step.conclusion.as_deref(): (points_awarded, passed)
StepScore(step, test_def) ==
    IF ~IsSome(step) THEN <<0, FALSE>>
    ELSE IF Unwrap(step).conclusion = Some("success") THEN <<test_def.max_score, TRUE>>
    ELSE IF Unwrap(step).conclusion = Some("failure") THEN <<0, FALSE>>
    ELSE <<0, FALSE>>

\* mutant of MakeTestResult: the awarded points stored as the available points
MakeTestResult_AwardedAsAvailable(steps, test_def) ==
    LET score == StepScore(FindStep(steps, test_def.name), test_def)
    IN [name |-> test_def.name,
        points_awarded |-> score[1],
        points_available |-> score[1],
        passed |-> score[2]]

MakeTestResult(steps, test_def) ==
    LET score == StepScore(FindStep(steps, test_def.name), test_def)
    IN [name |-> test_def.name,
        points_awarded |-> score[1],
        points_available |-> test_def.max_score,
        passed |-> score[2]]

\* IndexMap::insert: a key already present keeps its place and gets the new value
IndexMapInsert(map, key, value) ==
    LET hits == {i \in 1..Len(map) : map[i].key = key}
    IN IF hits = {} THEN Append(map, [key |-> key, value |-> value])
       ELSE [map EXCEPT ![MinOf(hits)] = [key |-> key, value |-> value]]

\* tests.values().map(|t| t.points_awarded).sum()
ProvisionalTotal(map) == SumSeq([i \in 1..Len(map) |-> map[i].value.points_awarded])

\* mutant of TotalAvailable: a declaration name counted once
TotalAvailable_PerName(defs) ==
    SumSeq([i \in 1..Len(defs) |->
              IF \E j \in 1..(i - 1) : defs[j].name = defs[i].name THEN 0
              ELSE defs[i].max_score])

\* test_definitions.iter().map(|t| t.max_score).sum()
TotalAvailable(defs) == SumSeq([i \in 1..Len(defs) |-> defs[i].max_score])

\* mutants of RefinedTotal: no number zeroes the total; the number is ignored
RefinedTotal_ZeroWithoutNumber(provisional, logs) ==
    IF logs.ok /\ IsSome(ParsePointsFromSummary(logs.val))
    THEN Unwrap(ParsePointsFromSummary(logs.val))
    ELSE 0
RefinedTotal_KeepsProvisional(provisional, logs) == provisional

\* lines 193-197: the log's number, when there is one, replaces the step total
RefinedTotal(provisional, logs) ==
    IF logs.ok /\ IsSome(ParsePointsFromSummary(logs.val))
    THEN Unwrap(ParsePointsFromSummary(logs.val))
    ELSE provisional

-----------------------------------------------------------------------------
(* parser/mod.rs: extract_test_definitions *)

AutograderUses == "classroom-resources/autograding-command-grader@v1"
CheckoutUses == "actions/checkout@v4"

\* u.contains("autograding-command-grader"), on the action references of the model
ContainsMarker(uses) == uses = AutograderUses

\* mutant of KeptSteps: the action reference is not looked at
RECURSIVE KeptSteps_AnyAction(_)
KeptSteps_AnyAction(steps) ==
    IF steps = <<>> THEN <<>>
    ELSE LET step == steps[1]
             kept == /\ IsSome(step.id)
                     /\ IsSome(step.with)
                     /\ IsSome(Unwrap(step.with).test_name)
                     /\ IsSome(Unwrap(step.with).max_score)
         IN (IF kept THEN <<[name |-> step.name,
                             id |-> Unwrap(step.id),
                             max_score |-> Unwrap(Unwrap(step.with).max_score)]>>
             ELSE <<>>) \o KeptSteps_AnyAction(Tail(steps))

RECURSIVE KeptSteps(_)
KeptSteps(steps) ==
    IF steps = <<>> THEN <<>>
    ELSE LET step == steps[1]
             uses_autograder == IsSome(step.uses) /\ ContainsMarker(Unwrap(step.uses))
             kept == /\ uses_autograder
                     /\ IsSome(step.id)
                     /\ IsSome(step.with)
                     /\ IsSome(Unwrap(step.with).test_name)
                     /\ IsSome(Unwrap(step.with).max_score)
         IN (IF kept THEN <<[name |-> step.name,
                             id |-> Unwrap(step.id),
                             max_score |-> Unwrap(Unwrap(step.with).max_score)]>>
             ELSE <<>>) \o KeptSteps(Tail(steps))

JobNotFound == "Job 'run-autograding-tests' not found in workflow"
NoTestsFound == "No autograding tests found in workflow"
ParseFailed == "Failed to parse workflow YAML"

\* mutant of ExtractTestDefinitions: an empty result is returned as it is
ExtractTestDefinitions_AllowsEmpty(workflow) ==
    IF AutogradingJobName \notin DOMAIN workflow.jobs THEN Failed(JobNotFound)
    ELSE Ok(KeptSteps(workflow.jobs[AutogradingJobName].steps))

\* Result<Vec<TestDefinition>>
ExtractTestDefinitions(workflow) ==
    IF AutogradingJobName \notin DOMAIN workflow.jobs THEN Failed(JobNotFound)
    ELSE LET found == KeptSteps(workflow.jobs[AutogradingJobName].steps)
         IN IF found = <<>> THEN Failed(NoTestsFound) ELSE Ok(found)

-----------------------------------------------------------------------------
(* The values the collaborators' answers are drawn from *)

Chars_oa == <<"o", "/", "a">>
Chars_ob == <<"o", "/", "b">>
Chars_c == <<"c">>

Alice == [students |-> <<"alice">>, full_name |-> Chars_oa, html_url |-> "https://github.com/o/a"]
Bob == [students |-> <<"bob">>, full_name |-> Chars_ob, html_url |-> "https://github.com/o/b"]
\* a roster entry whose repository identifier has no "/"
Carol == [students |-> <<"carol">>, full_name |-> Chars_c, html_url |-> "https://github.com/c"]

StudentPool == {Alice, Bob, Carol}

Rosters ==
    {r \in SeqsUpTo(StudentPool, MaxStudents) : \A i, j \in 1..Len(r) : i # j => r[i] # r[j]}

TestNames == {"t1", "t2"}
StepIds == <<"test-1", "test-2", "test-3", "test-4">>
Scores == {5, 10}
Conclusions == {None, Some("success"), Some("failure"), Some("skipped")}

GradedStep(id, name, score) ==
    [name |-> name, id |-> Some(id), uses |-> Some(AutograderUses),
     with |-> Some([test_name |-> Some(name), max_score |-> Some(score)])]
CheckoutStep == [name |-> "Checkout code", id |-> None, uses |-> Some(CheckoutUses), with |-> None]

WorkflowOf(steps) == [jobs |-> (AutogradingJobName :> [steps |-> steps])]
\* the workflow of parser::tests::test_parse_workflow with the declarations of scenario A
WorkflowA == WorkflowOf(<<CheckoutStep, GradedStep("test-1", "t1", 5),
                          GradedStep("test-2", "t2", 10)>>)
WorkflowNoJob == [jobs |-> ("build" :> [steps |-> <<CheckoutStep>>])]
\* the grading job without any graded step
WorkflowNoTests == WorkflowOf(<<CheckoutStep>>)
\* two graded steps that carry the same name
WorkflowDup == WorkflowOf(<<GradedStep("test-1", "t1", 5), GradedStep("test-2", "t1", 10)>>)

Run(id, created_at, conclusion) == [id |-> id, created_at |-> created_at, conclusion |-> conclusion]
\* every list of at most MaxRuns runs; a run's id is its place in the list
RunLists ==
    {[i \in 1..Len(l) |-> Run(i, l[i][1], l[i][2])] :
        l \in SeqsUpTo((1..MaxTime) \X {None, Some("success"), Some("failure")}, MaxRuns)}

JobStep(name, conclusion) == [name |-> name, conclusion |-> conclusion]
StepLists == SeqsUpTo({JobStep(n, c) : n \in TestNames, c \in Conclusions}, MaxSteps)

GradingJob(id, steps) == [id |-> id, name |-> AutogradingJobName, steps |-> steps]
BuildJob(id) == [id |-> id, name |-> "build", steps |-> <<>>]
\* the job lists around one list of steps; the second grading job of the last is a decoy
JobLists(steps) ==
    {<<GradingJob(1, steps)>>,
     <<BuildJob(1), GradingJob(2, steps)>>,
     <<GradingJob(1, steps), GradingJob(2, <<>>)>>}

\* the pieces log texts are put together from
Piece_Points == PointsWord
Piece_Slash == <<"/">>
Piece_Space == <<" ">>
Piece_Newline == <<"\n">>
Piece_7 == <<"7">>
Piece_12 == <<"1", "2">>
Piece_Plus == <<"+">>
Piece_TooBig == <<"4", "2", "9", "4", "9", "6", "7", "2", "9", "6">>
Pieces == {Piece_Points, Piece_Slash, Piece_Space, Piece_Newline,
           Piece_7, Piece_12, Piece_Plus, Piece_TooBig}
LogTexts == {Concat(ps) : ps \in SeqsUpTo(Pieces, MaxLogPieces)}

\* scenario B's log "Points 12/15" and a log without a number
Log_Points12of15 == Concat(<<Piece_Points, Piece_Space, Piece_12, Piece_Slash, <<"1", "5">> >>)
Log_NoNumber == <<"o", "k", "\n">>

StepsA == <<JobStep("t1", Some("success")), JobStep("t2", Some("failure"))>>
StepsB == <<JobStep("t2", Some("success"))>>
RunsOk == <<Run(1, 1, Some("success")), Run(2, 3, Some("success"))>>

\* what GitHub answers for one repository: [runs, jobs, logs]
World(runs, jobs, logs) == [runs |-> runs, jobs |-> jobs, logs |-> logs]
WorldSamples ==
    {World(Err, Err, Err),
     World(Ok(<<Run(1, 3, None)>>), Err, Err),
     World(Ok(RunsOk), Err, Err),
     World(Ok(RunsOk), Ok(<<BuildJob(1)>>), Err)}
    \cup {World(Ok(RunsOk), Ok(<<GradingJob(1, st)>>), l) :
            st \in {StepsA, StepsB},
            l \in {Err, Ok(Log_Points12of15), Ok(Log_NoNumber)}}

\* a resolution that fails at list_workflow_runs, at list_jobs_for_run, one that loses
\* only its log, and one that succeeds in full
BatchWorlds ==
    {World(Err, Err, Err),
     World(Ok(RunsOk), Err, Err),
     World(Ok(RunsOk), Ok(<<GradingJob(1, StepsA)>>), Err),
     World(Ok(RunsOk), Ok(<<GradingJob(1, StepsA)>>), Ok(Log_Points12of15))}

StarterUrl == <<"h", ":", "/", "/", "g", "/", "o", "/", "s", "/">>
\* a starter_code_url without any "/"
BadStarterUrl == <<"s">>
Assignments == {[starter_code_url |-> None], [starter_code_url |-> Some(StarterUrl)]}

-----------------------------------------------------------------------------
(* Initial states *)

NoPages == [pages |-> 0, more |-> FALSE, errors |-> <<>>]

-----------------------------------------------------------------------------
(* models/mod.rs: the workflow file as serde_yaml reads it (lines 182-207) *)

\* a YAML document of a workflow file: jobs by name; a job has the key `steps` or not;
\* a step has each of the keys name, id, uses, with or not; max-score is any integer

\* the document of a WorkflowFile value
ToYaml(workflow) ==
    [jobs |-> [j \in DOMAIN workflow.jobs |->
        [steps |-> Some([i \in 1..Len(workflow.jobs[j].steps) |->
            [name |-> Some(workflow.jobs[j].steps[i].name),
             id |-> workflow.jobs[j].steps[i].id,
             uses |-> workflow.jobs[j].steps[i].uses,
             with |-> workflow.jobs[j].steps[i].with]])]]]

\* the steps of the document that lack what their struct requires: `name: String` of
\* WorkflowStep, and a `max-score` that is given must be a u32
Undeserializable(step) ==
    \/ step.name = None
    \/ /\ IsSome(step.with)
       /\ IsSome(Unwrap(step.with).max_score)
       /\ Unwrap(Unwrap(step.with).max_score) < 0

\* serde_yaml::from_str::<WorkflowFile>: every job of the document is read into a
\* WorkflowJob (`steps` required) and every step of every job into a WorkflowStep
FromStr(doc) ==
    IF \E j \in DOMAIN doc.jobs :
           \/ doc.jobs[j].steps = None
           \/ \E i \in 1..Len(Unwrap(doc.jobs[j].steps)) :
                  Undeserializable(Unwrap(doc.jobs[j].steps)[i])
    THEN Err
    ELSE Ok([jobs |-> [j \in DOMAIN doc.jobs |->
        [steps |-> [i \in 1..Len(Unwrap(doc.jobs[j].steps)) |->
                       LET step == Unwrap(doc.jobs[j].steps)[i]
                       IN [name |-> Unwrap(step.name),
                           id |-> step.id, uses |-> step.uses, with |-> step.with]]]]])

\* the document behind a given reading of the workflow file; none behind a failure
YamlOf(wf) == IF wf.ok THEN Some(ToYaml(wf.val)) ELSE None

\* the collaborators' answers but the workflow file; repos are the runs each student's
\* repository holds
InitEnvRest(a, acc, worlds, dl, method, held, cls, asg, repos) ==
    /\ classrooms_response = cls
    /\ assignments_response = asg
    /\ repository_runs = repos
    /\ endpoint = method
    /\ page_responses = held
    /\ assignment_response = a
    /\ accepted_response = acc
    /\ runs_response = [i \in 1..Len(worlds) |-> worlds[i].runs]
    /\ jobs_response = [i \in 1..Len(worlds) |-> worlds[i].jobs]
    /\ logs_response = [i \in 1..Len(worlds) |-> worlds[i].logs]
    /\ deadline = dl

\* the collaborators' answers, the workflow file given as serde_yaml reads it
InitEnvFull(a, acc, wf, worlds, dl, method, held, cls, asg, repos) ==
    /\ InitEnvRest(a, acc, worlds, dl, method, held, cls, asg, repos)
    /\ workflow_response = wf
    /\ yaml_content = YamlOf(wf)

\* a repository holds what list_workflow_runs answers: all its runs fit one page
OnePage(worlds) ==
    [i \in 1..Len(worlds) |-> IF worlds[i].runs.ok THEN worlds[i].runs.val ELSE <<>>]

\* the collaborators' answers of a behaviour that never reaches the selection screens
InitEnvPaged(a, acc, wf, worlds, dl, method, held) ==
    InitEnvFull(a, acc, wf, worlds, dl, method, held, Err, Err, OnePage(worlds))

\* the collaborators' answers of a behaviour in which no listing method is called
InitEnv(a, acc, wf, worlds, dl) == InitEnvPaged(a, acc, wf, worlds, dl, "none", NoPages)

\* the locals of the operations at the place `start`
InitLocals(start, text, gathered) ==
    /\ pc = start
    /\ ret = "running"
    /\ accepted_assignments = <<>>
    /\ test_definitions = <<>>
    /\ index = 0
    /\ results = gathered
    /\ student_ret = "none"
    /\ run = None
    /\ autograding_job = None
    /\ tests = <<>>
    /\ scored = 0
    /\ total_awarded = 0
    /\ summary = text
    /\ points = None
    /\ trace = <<>>
    /\ page = 1
    /\ retries = 3
    /\ all_items = <<>>
    /\ list_ret = None

\* no key has been pressed and no frame drawn
NoKeys ==
    /\ pressed = 0
    /\ key_events = <<>>
    /\ screen = None

InitProgramWith(start, text, gathered) == InitLocals(start, text, gathered) /\ NoKeys

\* the program's state when nothing has been gathered yet
InitProgram(start, text) == InitProgramWith(start, text, <<>>)

\* the variants of AppState the model visits
LoadingClassrooms == [tag |-> "LoadingClassrooms"]
LateGradingInput(on_time_date, on_time_time, late_date, late_time, penalty_input) ==
    [tag |-> "LateGradingInput",
     on_time_date |-> on_time_date, on_time_time |-> on_time_time,
     late_date |-> late_date, late_time |-> late_time, penalty_input |-> penalty_input]
FetchingLateResults(on_time_deadline, late_deadline, penalty) ==
    [tag |-> "FetchingLateResults",
     on_time_deadline |-> on_time_deadline, late_deadline |-> late_deadline,
     late_penalty |-> penalty]
ErrorState(message) == [tag |-> "Error", message |-> message]

\* the user interface is not in play: App::state as App::new leaves it, no file written
NoUi == state = LoadingClassrooms /\ csv_file = None

\* the two batches and the penalty the late-grading combination is given
InitLateGrading(on_time, late, p) ==
    /\ on_time_results = on_time
    /\ late_results = late
    /\ late_penalty = p
    /\ late_grading_results = <<>>

\* no late grading is under way
NoLateGrading == InitLateGrading(<<>>, <<>>, 0)

\* the state when fetch_all_results is entered, for given collaborator answers
InitWith(a, acc, wf, worlds, dl) ==
    /\ InitEnv(a, acc, wf, worlds, dl)
    /\ progress_callback = TRUE
    /\ InitProgram("get_assignment", <<>>)
    /\ NoLateGrading
    /\ NoUi

\* a whole batch: every roster, a few answers per repository
Init ==
    \E a \in {Err} \cup {Ok(x) : x \in Assignments},
       r \in Rosters,
       accOk \in BOOLEAN,
       wf \in {Err, Ok(WorkflowA), Ok(WorkflowNoJob), Ok(WorkflowDup)},
       dl \in {None, Some(2)} :
        \E worlds \in [1..Len(r) -> WorldSamples] :
            /\ \A i \in 1..Len(r) :
                  InvalidRepository(r[i].full_name) => worlds[i] = World(Err, Err, Err)
            /\ accOk \/ r = <<>>
            /\ InitWith(a, IF accOk THEN Ok(r) ELSE Err, wf, worlds, dl)

\* the assignment-level inputs in full (with and without progress callback, every
\* assignment answer, every roster, every workflow), one answer per stage a student's
\* resolution can stop at
InitBatch ==
    \E a \in {Err} \cup {Ok(x) : x \in Assignments \cup {[starter_code_url |-> Some(BadStarterUrl)]}},
       r \in Rosters,
       accOk \in BOOLEAN,
       wf \in {Err, Ok(WorkflowA), Ok(WorkflowNoJob), Ok(WorkflowNoTests), Ok(WorkflowDup)},
       cb \in BOOLEAN :
        \E worlds \in [1..Len(r) -> BatchWorlds] :
            /\ \A i \in 1..Len(r) :
                  InvalidRepository(r[i].full_name) => worlds[i] = World(Err, Err, Err)
            /\ accOk \/ r = <<>>
            /\ InitEnv(a, IF accOk THEN Ok(r) ELSE Err, wf, worlds, None)
            /\ progress_callback = cb
            /\ InitProgram("get_assignment", <<>>)
            /\ NoLateGrading
            /\ NoUi

\* one student, every list of runs and every deadline
InitRuns ==
    \E rs \in {Err} \cup {Ok(l) : l \in RunLists},
       dl \in {None} \cup {Some(d) : d \in 1..MaxTime} :
        InitWith(Ok([starter_code_url |-> None]), Ok(<<Alice>>), Ok(WorkflowA),
                 <<World(rs, Ok(<<GradingJob(1, StepsA)>>), Ok(Log_Points12of15))>>, dl)

\* two students whose repositories have the same list of runs, every list, every deadline
InitPair ==
    \E rs \in {Err} \cup {Ok(l) : l \in RunLists},
       dl \in {None} \cup {Some(d) : d \in 1..MaxTime} :
        InitWith(Ok([starter_code_url |-> None]), Ok(<<Alice, Bob>>), Ok(WorkflowA),
                 <<World(rs, Ok(<<GradingJob(1, StepsA)>>), Ok(Log_Points12of15)),
                   World(rs, Ok(<<GradingJob(1, StepsB)>>), Err)>>, dl)

\* one student, every declaration list and every list of job steps
InitSteps ==
    \E ds \in SeqsFromTo(TestNames \X Scores, 1, MaxDefs),
       jobs \in {<<GradingJob(1, st)>> : st \in StepLists} \cup JobLists(StepsA) :
        InitWith(Ok([starter_code_url |-> None]), Ok(<<Alice>>),
                 Ok(WorkflowOf([i \in 1..Len(ds) |-> GradedStep(StepIds[i], ds[i][1], ds[i][2])])),
                 <<World(Ok(RunsOk), Ok(jobs), Ok(Log_NoNumber))>>, None)

\* a roster entry whose repository identifier is any text over "o" and "/"
MaxNameLen == 4
Dana(full_name) ==
    [students |-> <<"dana">>, full_name |-> full_name, html_url |-> "https://github.com/d"]

\* two students, one of them with every identifier, both with a repository in order
InitRepo ==
    \E full_name \in SeqsUpTo({"o", "/"}, MaxNameLen), first \in BOOLEAN :
        InitWith(Ok([starter_code_url |-> Some(StarterUrl)]),
                 Ok(IF first THEN <<Dana(full_name), Bob>> ELSE <<Bob, Dana(full_name)>>),
                 Ok(WorkflowA),
                 <<World(Ok(RunsOk), Ok(<<GradingJob(1, StepsA)>>), Ok(Log_Points12of15)),
                   World(Ok(RunsOk), Ok(<<GradingJob(1, StepsA)>>), Ok(Log_Points12of15))>>,
                 None)

\* the steps a workflow file may hold: any action reference, with or without id, with
\* or without parameters; the step at place i is named StepNames[i]
StepNames == <<"s1", "s2", "s3", "s4">>
StepKinds ==
    [uses : {None, Some(AutograderUses), Some(CheckoutUses)},
     id : {None, Some("id")},
     with : {None} \cup {Some(w) : w \in [test_name : {None, Some("n")},
                                          max_score : {None, Some(5), Some(10)}]}]
WorkflowStep(kind, i) ==
    [name |-> StepNames[i],
     id |-> IF kind.id = None THEN None ELSE Some(StepIds[i]),
     uses |-> kind.uses,
     with |-> kind.with]
WorkflowFiles ==
    {Err, Ok(WorkflowNoJob)}
    \cup {Ok(WorkflowOf([i \in 1..Len(ks) |-> WorkflowStep(ks[i], i)])) :
            ks \in SeqsUpTo(StepKinds, MaxWorkflowSteps)}
    \cup {Ok([jobs |-> ("build" :> [steps |-> <<GradedStep("test-1", "t1", 5)>>]
                        @@ AutogradingJobName :> [steps |-> st])]) :
            st \in {<<>>, <<GradedStep("test-2", "t2", 10)>>}}

\* parser::parse_workflow alone, on every workflow file
InitExtract ==
    \E file \in WorkflowFiles :
        /\ InitEnv(Err, Err, file, <<>>, None)
        /\ progress_callback = FALSE
        /\ InitProgram("parse_workflow", <<>>)
        /\ NoLateGrading
        /\ NoUi

\* parse_points_from_summary alone, on every log text
InitParse ==
    \E text \in LogTexts :
        /\ InitEnv(Err, Err, Err, <<>>, None)
        /\ progress_callback = FALSE
        /\ InitProgram("parse", text)
        /\ NoLateGrading
        /\ NoUi

-----------------------------------------------------------------------------
(* fetcher.rs: fetch_test_definitions and the choice of the reference repository *)

RECURSIVE TrimEndMatches(_, _)
TrimEndMatches(s, c) ==
    IF s # <<>> /\ s[Len(s)] = c THEN TrimEndMatches(SubSeq(s, 1, Len(s) - 1), c) ELSE s

\* parser::parse_workflow on what get_file_contents returned
ParseWorkflow(file) ==
    IF file.ok THEN ExtractTestDefinitions(file.val) ELSE Failed(ParseFailed)

FetchTestDefinitionsFrom(starter_code_url, file) ==
    LET url_parts == Split(TrimEndMatches(starter_code_url, "/"), "/")
    IN IF Len(url_parts) < 2 THEN Err ELSE ParseWorkflow(file)

\* lines 69-70: the owner and the name cut out of the starter code url
StarterRepository(starter_code_url) ==
    LET url_parts == Split(TrimEndMatches(starter_code_url, "/"), "/")
    IN <<url_parts[Len(url_parts) - 1], url_parts[Len(url_parts)]>>

\* the repository whose workflow file is asked for
ReferenceRepository(assignment, roster) ==
    IF IsSome(assignment.starter_code_url)
    THEN StarterRepository(Unwrap(assignment.starter_code_url))
    ELSE ParseRepoUrl(roster[1].full_name)

\* whether lines 236-254 get as far as get_file_contents
RequestsWorkflowFile(assignment, roster) ==
    IF IsSome(assignment.starter_code_url)
    THEN Len(Split(TrimEndMatches(Unwrap(assignment.starter_code_url), "/"), "/")) >= 2
    ELSE ~InvalidRepository(roster[1].full_name)

\* mutant of TestDefinitionsOf: a failed extraction counts as an empty declaration list
TestDefinitionsOf_EmptyOnFailure(assignment, roster, file) ==
    IF IsSome(assignment.starter_code_url)
    THEN Ok(IF FetchTestDefinitionsFrom(Unwrap(assignment.starter_code_url), file).ok
            THEN FetchTestDefinitionsFrom(Unwrap(assignment.starter_code_url), file).val
            ELSE <<>>)
    ELSE IF InvalidRepository(roster[1].full_name) THEN Err
    ELSE Ok(IF ParseWorkflow(file).ok THEN ParseWorkflow(file).val ELSE <<>>)

\* fetch_all_results, lines 236-254
TestDefinitionsOf(assignment, roster, file) ==
    IF IsSome(assignment.starter_code_url)
    THEN FetchTestDefinitionsFrom(Unwrap(assignment.starter_code_url), file)
    ELSE IF InvalidRepository(roster[1].full_name) THEN Err
    ELSE ParseWorkflow(file)

-----------------------------------------------------------------------------
(* fetcher.rs: fetch_all_results and fetch_student_results, one action per await *)

\* the entries of trace: a collaborator call made for roster position at (0: for the
\* assignment) with the run or job id it was given (0: none), and one invocation
\* callback(index + 1, total_students, student_name)
Call(op, at, id) == [op |-> op, index |-> at, total |-> 0, who |-> "", id |-> id]
\* get_file_contents(owner, repo, ".github/workflows/classroom.yml")
FileCall(repository) ==
    [op |-> "get_file_contents", index |-> 0, total |-> 0, who |-> "", id |-> 0,
     repo |-> repository]
\* mutant of Progress: the observer is handed the 0-based index of enumerate()
Progress_ZeroBased(i, n, student_name) ==
    [op |-> "progress", index |-> i - 1, total |-> n, who |-> student_name, id |-> 0]

Progress(i, n, student_name) ==
    [op |-> "progress", index |-> i, total |-> n, who |-> student_name, id |-> 0]

BatchFails ==
    /\ pc' = "done"
    /\ ret' = "Err"

\* classroom_client.get_assignment(assignment_id).await?
GetAssignment ==
    /\ pc = "get_assignment"
    /\ IF assignment_response.ok
       THEN pc' = "list_accepted" /\ ret' = ret
       ELSE BatchFails
    /\ trace' = Append(trace, Call("get_assignment", 0, 0))
    /\ UNCHANGED <<loopVars, listVars, envVars, lateVars, uiVars, accepted_assignments, test_definitions, index, results,
                   studentVars, parseVars>>

\* classroom_client.list_accepted_assignments(assignment_id).await? and the empty check
ListAcceptedAssignments ==
    /\ pc = "list_accepted"
    /\ IF accepted_response.ok /\ accepted_response.val # <<>>
       THEN /\ accepted_assignments' = accepted_response.val
            /\ pc' = "test_definitions"
            /\ ret' = ret
       ELSE /\ BatchFails
            /\ accepted_assignments' = accepted_assignments
    /\ trace' = Append(trace, Call("list_accepted_assignments", 0, 0))
    /\ UNCHANGED <<loopVars, listVars, envVars, lateVars, uiVars, test_definitions, index, results, studentVars, parseVars>>

\* the test definitions, from the starter repository or the first student's
FetchTestDefinitions ==
    /\ pc = "test_definitions"
    /\ LET found == TestDefinitionsOf(assignment_response.val, accepted_assignments,
                                      workflow_response)
       IN IF found.ok
          THEN /\ test_definitions' = found.val
               /\ pc' = "loop"
               /\ ret' = ret
          ELSE /\ BatchFails
               /\ test_definitions' = test_definitions
    /\ trace' = IF RequestsWorkflowFile(assignment_response.val, accepted_assignments)
                THEN Append(trace, FileCall(ReferenceRepository(assignment_response.val,
                                                                accepted_assignments)))
                ELSE trace
    /\ UNCHANGED <<loopVars, listVars, envVars, lateVars, uiVars, accepted_assignments, index, results, studentVars, parseVars>>

\* mutant of StudentFails: a student's error propagates out of the batch
StudentFails_AbortsBatch ==
    /\ student_ret' = "Err"
    /\ index' = index
    /\ pc' = "done"
    /\ ret' = "Err"
    /\ results' = results

\* mutant of StudentFails: a student's error discards the results gathered so far
StudentFails_ClearsResults ==
    /\ student_ret' = "Err"
    /\ index' = index + 1
    /\ pc' = "loop"
    /\ ret' = ret
    /\ results' = <<>>

\* the Err arm of the match on fetch_student_results: the loop goes on
StudentFails ==
    /\ student_ret' = "Err"
    /\ index' = index + 1
    /\ pc' = "loop"
    /\ ret' = ret
    /\ results' = results

\* the loop head, the progress callback, and fetch_student_results up to its first await
NextStudent ==
    /\ pc = "loop"
    /\ index < Len(accepted_assignments)
    /\ run' = None
    /\ autograding_job' = None
    /\ tests' = <<>>
    /\ scored' = 0
    /\ total_awarded' = 0
    /\ summary' = <<>>
    /\ points' = None
    /\ trace' = IF progress_callback
                THEN Append(trace, Progress(index + 1, Len(accepted_assignments),
                                            Username(accepted_assignments[index + 1])))
                ELSE trace
    /\ IF InvalidRepository(accepted_assignments[index + 1].full_name)
       THEN StudentFails
       ELSE /\ student_ret' = "running"
            /\ pc' = "list_runs"
            /\ UNCHANGED <<loopVars, listVars, ret, index, results>>
    /\ UNCHANGED <<loopVars, listVars, envVars, lateVars, uiVars, accepted_assignments, test_definitions>>

\* list_workflow_runs(..).await? and the choice of target_run
ListWorkflowRuns ==
    /\ pc = "list_runs"
    /\ LET response == runs_response[index + 1]
           target_run == IF response.ok THEN TargetRun(response.val, deadline) ELSE None
       IN IF IsSome(target_run)
          THEN /\ run' = target_run
               /\ pc' = "list_jobs"
               /\ UNCHANGED <<loopVars, listVars, student_ret, ret, index, results>>
          ELSE /\ StudentFails
               /\ run' = run
    /\ trace' = Append(trace, Call("list_workflow_runs", index + 1, 0))
    /\ UNCHANGED <<loopVars, listVars, envVars, lateVars, uiVars, accepted_assignments, test_definitions,
                   autograding_job, tests, scored, total_awarded, parseVars>>

\* list_jobs_for_run(..).await? and the search for the autograding job
ListJobsForRun ==
    /\ pc = "list_jobs"
    /\ LET response == jobs_response[index + 1]
           job == IF response.ok THEN FindJob(response.val) ELSE None
       IN IF IsSome(job)
          THEN /\ autograding_job' = job
               /\ pc' = "score_tests"
               /\ UNCHANGED <<loopVars, listVars, student_ret, ret, index, results>>
          ELSE /\ StudentFails
               /\ autograding_job' = autograding_job
    /\ trace' = Append(trace, Call("list_jobs_for_run", index + 1, Unwrap(run).id))
    /\ UNCHANGED <<loopVars, listVars, envVars, lateVars, uiVars, accepted_assignments, test_definitions, run,
                   tests, scored, total_awarded, parseVars>>

\* mutant of ScoreTest: a declaration without a job step of its name gets no TestResult
ScoreTest_OnlyFoundSteps ==
    /\ pc = "score_tests"
    /\ scored < Len(test_definitions)
    /\ LET test_def == test_definitions[scored + 1]
       IN tests' = IF IsSome(FindStep(Unwrap(autograding_job).steps, test_def.name))
                   THEN IndexMapInsert(tests, test_def.name,
                                       MakeTestResult(Unwrap(autograding_job).steps, test_def))
                   ELSE tests
    /\ scored' = scored + 1
    /\ UNCHANGED <<loopVars, listVars, envVars, lateVars, uiVars, batchVars, student_ret, run, autograding_job, total_awarded,
                   parseVars, trace>>

\* one turn of "for test_def in test_definitions": the TestResult is built and inserted
ScoreTest ==
    /\ pc = "score_tests"
    /\ scored < Len(test_definitions)
    /\ LET test_def == test_definitions[scored + 1]
       IN tests' = IndexMapInsert(tests, test_def.name,
                                  MakeTestResult(Unwrap(autograding_job).steps, test_def))
    /\ scored' = scored + 1
    /\ UNCHANGED <<loopVars, listVars, envVars, lateVars, uiVars, batchVars, student_ret, run, autograding_job, total_awarded,
                   parseVars, trace>>

\* after the loop: let mut total_awarded = tests.values().map(..).sum()
SumPoints ==
    /\ pc = "score_tests"
    /\ scored = Len(test_definitions)
    /\ total_awarded' = ProvisionalTotal(tests)
    /\ pc' = "get_logs"
    /\ UNCHANGED <<loopVars, listVars, envVars, lateVars, uiVars, ret, accepted_assignments, test_definitions, index, results,
                   student_ret, run, autograding_job, tests, scored, parseVars, trace>>

\* mutant of StudentResult: the timestamp is taken from the first listed run
StudentResult_FirstListedTimestamp(student, target, map, awarded, defs) ==
    [username |-> Username(student),
     repo_url |-> student.html_url,
     workflow_run_timestamp |-> runs_response[index + 1].val[1].created_at,
     tests |-> map,
     total_awarded |-> awarded,
     total_available |-> TotalAvailable(defs)]

StudentResult(student, target, map, awarded, defs) ==
    [username |-> Username(student),
     repo_url |-> student.html_url,
     workflow_run_timestamp |-> target.created_at,
     tests |-> map,
     total_awarded |-> awarded,
     total_available |-> TotalAvailable(defs)]

\* get_job_logs(..).await, the log's number, Ok(StudentResult) and results.push
GetJobLogs ==
    /\ pc = "get_logs"
    /\ LET logs == logs_response[index + 1]
           refined == RefinedTotal(total_awarded, logs)
       IN /\ summary' = IF logs.ok THEN logs.val ELSE summary
          /\ points' = IF logs.ok THEN ParsePointsFromSummary(logs.val) ELSE points
          /\ total_awarded' = refined
          /\ results' = Append(results,
                               StudentResult(accepted_assignments[index + 1], Unwrap(run),
                                             tests, refined, test_definitions))
    /\ student_ret' = "Ok"
    /\ index' = index + 1
    /\ pc' = "loop"
    /\ trace' = Append(trace, Call("get_job_logs", index + 1, Unwrap(autograding_job).id))
    /\ UNCHANGED <<loopVars, listVars, envVars, lateVars, uiVars, ret, accepted_assignments, test_definitions,
                   run, autograding_job, tests, scored>>

\* Ok(results)
Return ==
    /\ pc = "loop"
    /\ index = Len(accepted_assignments)
    /\ pc' = "done"
    /\ ret' = "Ok"
    /\ UNCHANGED <<loopVars, listVars, envVars, lateVars, uiVars, accepted_assignments, test_definitions, index, results,
                   studentVars, parseVars, trace>>

\* one call of parser::parse_workflow on the file's content
ParseWorkflowFile ==
    /\ pc = "parse_workflow"
    /\ LET found == ParseWorkflow(workflow_response)
       IN /\ test_definitions' = IF found.ok THEN found.val ELSE test_definitions
          /\ ret' = IF found.ok THEN "Ok" ELSE found.val
    /\ pc' = "workflow_parsed"
    /\ UNCHANGED <<loopVars, listVars, envVars, lateVars, uiVars, accepted_assignments, index, results,
                   studentVars, parseVars, trace>>

\* one call of parse_points_from_summary
ParsePoints ==
    /\ pc = "parse"
    /\ points' = ParsePointsFromSummary(summary)
    /\ pc' = "parsed"
    /\ UNCHANGED <<loopVars, listVars, envVars, lateVars, uiVars, ret, accepted_assignments, test_definitions, index, results,
                   studentVars, summary, trace>>

-----------------------------------------------------------------------------
(* The late-grading combination.  fetch_all_late_results and LateGradingResult are     *)
(* used by ui/app.rs and export.rs but their source is not in the repository's src/;   *)
(* they are modelled from spec.md 4.6.                                                *)

\* the penalty fraction is held in millionths: late_penalty = p * PenaltyUnit
PenaltyUnit == 1000000

\* mutant of PenalisedScore: the penalty fraction itself is what is kept
PenalisedScore_KeepsPenalty(awarded, p) ==
    (awarded * p + PenaltyUnit \div 2) \div PenaltyUnit

\* round(late.totalAwarded * (1 - p)), a half rounding up
PenalisedScore(awarded, p) ==
    (awarded * (PenaltyUnit - p) + PenaltyUnit \div 2) \div PenaltyUnit

\* mutant of FinalScore: the late attempt counts whenever there is one
FinalScore_AlwaysLate(on_time, late, p) == PenalisedScore(late.total_awarded, p)

FinalScore(on_time, late, p) ==
    IF late.total_awarded <= on_time.total_awarded
    THEN on_time.total_awarded
    ELSE PenalisedScore(late.total_awarded, p)

LateGradingResult(on_time, late, p) ==
    [username |-> on_time.username,
     repo_url |-> on_time.repo_url,
     on_time_result |-> on_time,
     late_result |-> late,
     final_score |-> FinalScore(on_time, late, p)]

\* the places of the batch whose result carries the student handle
PlacesOf(batch, username) == {i \in 1..Len(batch) : batch[i].username = username}

\* mutant of PairByHandle: a student without late result is paired with their own
\* on-time result
RECURSIVE PairByHandle_KeepsUnpaired(_, _, _)
PairByHandle_KeepsUnpaired(on_time_batch, late_batch, p) ==
    IF on_time_batch = <<>> THEN <<>>
    ELSE LET on_time == on_time_batch[1]
             places == PlacesOf(late_batch, on_time.username)
         IN <<LateGradingResult(on_time,
                                IF places = {} THEN on_time ELSE late_batch[MinOf(places)],
                                p)>>
            \o PairByHandle_KeepsUnpaired(Tail(on_time_batch), late_batch, p)

\* the two batches paired by student handle, in the order of the on-time batch; a handle
\* that is in one batch only yields nothing
RECURSIVE PairByHandle(_, _, _)
PairByHandle(on_time_batch, late_batch, p) ==
    IF on_time_batch = <<>> THEN <<>>
    ELSE LET on_time == on_time_batch[1]
             places == PlacesOf(late_batch, on_time.username)
         IN (IF places = {} THEN <<>>
             ELSE <<LateGradingResult(on_time, late_batch[MinOf(places)], p)>>)
            \o PairByHandle(Tail(on_time_batch), late_batch, p)

\* fetch_all_late_results, once both batches are resolved
FetchAllLateResults ==
    /\ pc = "combine"
    /\ late_grading_results' = PairByHandle(on_time_results, late_results, late_penalty)
    /\ pc' = "combined"
    /\ UNCHANGED <<loopVars, listVars, envVars, uiVars, ret, accepted_assignments, test_definitions, index,
                   results, studentVars, parseVars, trace, on_time_results, late_results,
                   late_penalty>>

(* ui/app.rs: handle_key_event in LateGradingInput, and the start of fetch_late_results *)

\* the digits at the front of s, at most width of them (chrono's scan::number)
RECURSIVE DigitRun(_, _)
DigitRun(s, width) ==
    IF width = 0 \/ s = <<>> \/ s[1] \notin Digit THEN <<>>
    ELSE <<s[1]>> \o DigitRun(Tail(s), width - 1)

LeapYear(y) == (y % 4 = 0 /\ y % 100 # 0) \/ y % 400 = 0
DaysInMonth(y, m) ==
    IF m = 2 THEN (IF LeapYear(y) THEN 29 ELSE 28)
    ELSE IF m \in {4, 6, 9, 11} THEN 30 ELSE 31

\* NaiveDate::parse_from_str(s, "%Y-%m-%d") on unsigned input without blanks: up to four
\* digits, "-", up to two digits, "-", up to two digits, nothing after; a calendar date
ParseDate(s) ==
    LET y == DigitRun(s, 4)
        s2 == SubSeq(s, Len(y) + 1, Len(s))
        m == DigitRun(Tail(s2), 2)
        s3 == SubSeq(s2, Len(m) + 2, Len(s2))
        d == DigitRun(Tail(s3), 2)
    IN IF y = <<>> \/ s2 = <<>> \/ s2[1] # "-" THEN None
       ELSE IF m = <<>> \/ s3 = <<>> \/ s3[1] # "-" THEN None
       ELSE IF d = <<>> \/ Len(s3) # Len(d) + 1 THEN None
       ELSE IF DigitsValue(m, 0) \notin 1..12 THEN None
       ELSE IF DigitsValue(d, 0) \notin 1..DaysInMonth(DigitsValue(y, 0), DigitsValue(m, 0))
            THEN None
       ELSE Some(<<DigitsValue(y, 0), DigitsValue(m, 0), DigitsValue(d, 0)>>)

\* NaiveTime::parse_from_str(s, "%H:%M"), likewise
ParseTime(s) ==
    LET h == DigitRun(s, 2)
        s2 == SubSeq(s, Len(h) + 1, Len(s))
        mi == DigitRun(Tail(s2), 2)
    IN IF h = <<>> \/ s2 = <<>> \/ s2[1] # ":" THEN None
       ELSE IF mi = <<>> \/ Len(s2) # Len(mi) + 1 THEN None
       ELSE IF DigitsValue(h, 0) > 23 \/ DigitsValue(mi, 0) > 59 THEN None
       ELSE Some(<<DigitsValue(h, 0), DigitsValue(mi, 0)>>)

\* the match on the two parses: from_naive_utc_and_offset(date.and_time(time), Utc)
ParseDeadline(date_str, time_str) ==
    IF IsSome(ParseDate(date_str)) /\ IsSome(ParseTime(time_str))
    THEN Some([date |-> Unwrap(ParseDate(date_str)), time |-> Unwrap(ParseTime(time_str))])
    ELSE None

\* 10^n
RECURSIVE Pow10(_)
Pow10(n) == IF n = 0 THEN 1 ELSE 10 * Pow10(n - 1)

Chars_nan == <<"n", "a", "n">>
Chars_inf == <<"i", "n", "f">>

\* str::parse::<f64>() on input without exponent: an optional sign, then "nan", "inf", or
\* digits around at most one "." with a digit somewhere.  A number is held in
\* ten-thousandths (the input has at most five characters).
ParseF64(s) ==
    LET signed == s # <<>> /\ s[1] \in {"+", "-"}
        body == IF signed THEN Tail(s) ELSE s
        dot == Find(body, <<".">>)
        whole == IF dot = 0 THEN body ELSE SubSeq(body, 1, dot - 1)
        frac == IF dot = 0 THEN <<>> ELSE SubSeq(body, dot + 1, Len(body))
        digits == whole \o frac
    IN IF body = Chars_nan THEN Some([kind |-> "nan", negative |-> FALSE, val |-> 0])
       ELSE IF body = Chars_inf
            THEN Some([kind |-> "inf", negative |-> signed /\ s[1] = "-", val |-> 0])
       ELSE IF digits = <<>> \/ (\E i \in 1..Len(digits) : digits[i] \notin Digit) THEN None
       ELSE Some([kind |-> "number",
                  negative |-> signed /\ s[1] = "-",
                  val |-> DigitsValue(digits, 0) * Pow10(4 - Len(frac))])

\* mutant of PenaltyFraction: no upper limit on the percentage
PenaltyFraction_NoUpperLimit(penalty_input) ==
    LET parsed == ParseF64(penalty_input)
    IN IF IsSome(parsed) /\ Unwrap(parsed).kind = "number"
          /\ (~Unwrap(parsed).negative \/ Unwrap(parsed).val = 0)
       THEN Some(Unwrap(parsed).val)
       ELSE None

\* Ok(p) if p >= 0.0 && p <= 100.0 => p / 100.0, in units of 1/PenaltyUnit
PenaltyFraction(penalty_input) ==
    LET parsed == ParseF64(penalty_input)
    IN IF IsSome(parsed) /\ Unwrap(parsed).kind = "number"
          /\ (~Unwrap(parsed).negative \/ Unwrap(parsed).val = 0)
          /\ Unwrap(parsed).val <= 100 * 10000
       THEN Some(Unwrap(parsed).val)
       ELSE None

\* KeyCode::Enter in LateGradingInput: the three validations, then fetch_late_results up
\* to its first await on a collaborator
HandleKeyEnter ==
    /\ pc = "ui"
    /\ state.tag = "LateGradingInput"
    /\ LET on_time_deadline == ParseDeadline(state.on_time_date, state.on_time_time)
           late_deadline == ParseDeadline(state.late_date, state.late_time)
           penalty == PenaltyFraction(state.penalty_input)
       IN IF ~IsSome(on_time_deadline)
          THEN state' = ErrorState("Invalid on-time deadline format") /\ pc' = pc
          ELSE IF ~IsSome(late_deadline)
          THEN state' = ErrorState("Invalid late deadline format") /\ pc' = pc
          ELSE IF ~IsSome(penalty)
          THEN state' = ErrorState("Invalid penalty percentage") /\ pc' = pc
          ELSE /\ state' = FetchingLateResults(Unwrap(on_time_deadline),
                                               Unwrap(late_deadline), Unwrap(penalty))
               /\ pc' = "late_get_assignment"
    /\ UNCHANGED <<loopVars, listVars, envVars, lateVars, ret, accepted_assignments, test_definitions, index,
                   results, studentVars, parseVars, trace, csv_file>>

\* fetch_late_results: get_assignment(assignment.id).await?
FetchLateResults_GetAssignment ==
    /\ pc = "late_get_assignment"
    /\ trace' = Append(trace, Call("get_assignment", 0, 0))
    /\ IF assignment_response.ok
       THEN pc' = "late_list_accepted" /\ ret' = ret
       ELSE BatchFails
    /\ UNCHANGED <<loopVars, listVars, envVars, lateVars, uiVars, accepted_assignments, test_definitions,
                   index, results, studentVars, parseVars>>

\* fetch_late_results: list_accepted_assignments(assignment.id).await? and the empty
\* check; then fetch_all_late_results is spawned
FetchLateResults_ListAccepted ==
    /\ pc = "late_list_accepted"
    /\ trace' = Append(trace, Call("list_accepted_assignments", 0, 0))
    /\ IF accepted_response.ok /\ accepted_response.val # <<>>
       THEN /\ accepted_assignments' = accepted_response.val
            /\ pc' = "late_fetch_all"
            /\ ret' = ret
       ELSE /\ BatchFails
            /\ accepted_assignments' = accepted_assignments
    /\ UNCHANGED <<loopVars, listVars, envVars, lateVars, uiVars, test_definitions, index, results,
                   studentVars, parseVars>>

-----------------------------------------------------------------------------
(* The inputs of the late-grading combination *)

\* the declarations of scenario A: 15 points in all
DeclarationsA == <<[name |-> "t1", id |-> "test-1", max_score |-> 5],
                   [name |-> "t2", id |-> "test-2", max_score |-> 10]>>

\* the totals a batch result may carry, and the penalty fractions
LateScores == {0, 5, 10, 15}
Penalties == {0, 200000, 250000, 333333, 500000, 1000000}

\* the StudentResult of a student whose graded run was created at created_at
ResultOf(student, created_at, awarded) ==
    StudentResult(student, Run(1, created_at, Some("success")), <<>>, awarded, DeclarationsA)

\* the batches a roster can resolve to: per entry no result, or a result with some total
RECURSIVE BatchesOf(_, _)
BatchesOf(roster, created_at) ==
    IF roster = <<>> THEN {<<>>}
    ELSE LET rest == BatchesOf(Tail(roster), created_at)
         IN rest \cup {<<ResultOf(roster[1], created_at, a)>> \o b : a \in LateScores, b \in rest}

\* the late-grading combination alone: every pair of batches of a roster, every penalty
InitLate ==
    \E r \in {x \in Rosters : \A i \in 1..Len(x) : ~InvalidRepository(x[i].full_name)},
       p \in Penalties :
        \E on_time \in BatchesOf(r, 1), late \in BatchesOf(r, 3) :
            /\ InitEnv(Err, Err, Err, <<>>, None)
            /\ progress_callback = FALSE
            /\ InitProgram("combine", <<>>)
            /\ InitLateGrading(on_time, late, p)
            /\ NoUi

-----------------------------------------------------------------------------
(* The inputs of the late-grading form *)

MaxPenaltyLen == 3

Chars_2024_01_03 == <<"2", "0", "2", "4", "-", "0", "1", "-", "0", "3">>
Chars_2024_01_05 == <<"2", "0", "2", "4", "-", "0", "1", "-", "0", "5">>
DateSamples ==
    {Chars_2024_01_03, Chars_2024_01_05,
     <<"2", "0", "2", "4", "-", "0", "2", "-", "2", "9">>,
     <<"2", "0", "2", "3", "-", "0", "2", "-", "2", "9">>,
     <<"2", "0", "2", "4", "-", "1", "3", "-", "0", "1">>,
     <<"2", "0", "2", "4", "-", "1", "-", "5">>,
     <<"2", "0", "2", "4", "0", "1", "0", "3">>,
     <<"2", "0", "2", "4", "-", "0", "1", "-", "0", "x">>,
     <<>>}
Chars_00_00 == <<"0", "0", ":", "0", "0">>
TimeSamples ==
    {Chars_00_00,
     <<"2", "3", ":", "5", "9">>,
     <<"2", "4", ":", "0", "0">>,
     <<"1", "2", ":", "6", "0">>,
     <<"9", ":", "5">>,
     <<"1", "2", "0", "0">>,
     <<>>}
\* "20" is what the form starts with (ui/app.rs:446)
Chars_20 == <<"2", "0">>
PenaltySamples ==
    {Chars_20, <<>>, <<"1", "0", "0">>, <<"1", "0", "0", ".", "1">>, <<"1", "2", ".", "5">>,
     <<"9", "9", ".", "9", "9">>, <<".", "0", "0", "0", "1">>, <<"-", "0">>, <<"+", "5">>,
     <<"-", "1">>, <<"2", "0", "%">>, Chars_nan, Chars_inf}
\* every text of at most MaxPenaltyLen characters over a few digits, ".", "-"
PenaltyTexts == SeqsUpTo({"0", "1", "5", ".", "-"}, MaxPenaltyLen)

\* the form as filled in when Enter is pressed
InitUi ==
    \/ \E od \in DateSamples, ot \in TimeSamples, ld \in DateSamples, lt \in TimeSamples,
          pen \in {Chars_20, <<"1", "0", "0", ".", "1">>} :
           /\ InitEnv(Ok([starter_code_url |-> None]), Ok(<<Alice>>), Err, <<>>, None)
           /\ state = LateGradingInput(od, ot, ld, lt, pen)
           /\ csv_file = None
           /\ progress_callback = TRUE
           /\ InitProgram("ui", <<>>)
           /\ NoLateGrading
    \/ \E pen \in PenaltySamples \cup PenaltyTexts,
          a \in {Err, Ok([starter_code_url |-> None])},
          acc \in {Err, Ok(<<>>), Ok(<<Alice>>)} :
           /\ InitEnv(a, acc, Err, <<>>, None)
           /\ state = LateGradingInput(Chars_2024_01_03, Chars_00_00,
                                       Chars_2024_01_05, Chars_00_00, pen)
           /\ csv_file = None
           /\ progress_callback = TRUE
           /\ InitProgram("ui", <<>>)
           /\ NoLateGrading

-----------------------------------------------------------------------------
(* export.rs: export_to_csv, and models/mod.rs: ResultStats::calculate *)

NoResultsToExport == "No results to export"

\* DateTime::to_rfc3339 of the instant t seconds after the epoch, for t < 10
ToRfc3339(t) == "1970-01-01T00:00:0" \o ToString(t) \o "+00:00"

\* format!("{:.2}", percentage) with percentage = awarded / available * 100.0, or 0.0
\* when nothing is available: the nearest hundredth (an exact half needs available to be
\* a multiple of 32, which no total of the model is)
PercentageText(awarded, available) ==
    LET hundredths == IF available > 0
                      THEN (awarded * 20000 + available) \div (2 * available)
                      ELSE 0
        cents == hundredths % 100
    IN ToString(hundredths \div 100) \o "."
       \o (IF cents < 10 THEN "0" ELSE "") \o ToString(cents)

\* IndexMap::get
IndexMapGet(map, key) ==
    LET hits == {i \in 1..Len(map) : map[i].key = key}
    IN IF hits = {} THEN None ELSE Some(map[MinOf(hits)].value)

\* results.first().map(|r| r.tests.keys().cloned().collect())
FirstTestNames(rs) == [i \in 1..Len(rs[1].tests) |-> rs[1].tests[i].key]

\* lines 27-41
CsvHeaders(test_names) ==
    <<"student_username", "student_repo_url", "workflow_run_timestamp">>
    \o test_names
    \o <<"total_points_awarded", "total_points_available", "percentage">>

\* mutant of CsvRecord: the total available is written before the total awarded
CsvRecord_AvailableFirst(student, test_names) ==
    <<student.username, student.repo_url, ToRfc3339(student.workflow_run_timestamp)>>
    \o [i \in 1..Len(test_names) |->
          IF IsSome(IndexMapGet(student.tests, test_names[i]))
          THEN ToString(Unwrap(IndexMapGet(student.tests, test_names[i])).points_awarded)
          ELSE "0"]
    \o <<ToString(student.total_available), ToString(student.total_awarded),
         PercentageText(student.total_awarded, student.total_available)>>

\* lines 53-79
CsvRecord(student, test_names) ==
    <<student.username, student.repo_url, ToRfc3339(student.workflow_run_timestamp)>>
    \o [i \in 1..Len(test_names) |->
          IF IsSome(IndexMapGet(student.tests, test_names[i]))
          THEN ToString(Unwrap(IndexMapGet(student.tests, test_names[i])).points_awarded)
          ELSE "0"]
    \o <<ToString(student.total_awarded), ToString(student.total_available),
         PercentageText(student.total_awarded, student.total_available)>>

\* Result: the records handed to the csv writer, the header first (the file itself is
\* taken to be writable)
ExportToCsv(rs) ==
    IF rs = <<>> THEN Failed(NoResultsToExport)
    ELSE Ok(<<CsvHeaders(FirstTestNames(rs))>>
            \o [i \in 1..Len(rs) |-> CsvRecord(rs[i], FirstTestNames(rs))])

\* an f64 that is a ratio of naturals, kept exactly: a fraction in lowest terms
RECURSIVE Gcd(_, _)
Gcd(a, b) == IF b = 0 THEN a ELSE Gcd(b, a % b)
Frac(n, d) == [num |-> n \div Gcd(n, d), den |-> d \div Gcd(n, d)]
FracAdd(a, b) == Frac(a.num * b.den + b.num * a.den, a.den * b.den)
FracDiv(a, k) == Frac(a.num, a.den * k)
FracLeq(a, b) == a.num * b.den <= b.num * a.den

\* lines 259-265 and 274-280: a student's percentage, 0.0 when nothing is available
ScoreOf(r) ==
    IF r.total_available > 0 THEN Frac(100 * r.total_awarded, r.total_available)
    ELSE Frac(0, 1)

\* .sum() of the scores
RECURSIVE SumScores(_)
SumScores(scores) ==
    IF scores = <<>> THEN Frac(0, 1) ELSE FracAdd(scores[1], SumScores(Tail(scores)))

\* mutant of SortScores: the scores are left in batch order
SortScores_Unsorted(scores) == scores

\* scores.sort_by(|a, b| a.partial_cmp(b).unwrap()): a stable sort, ascending
RECURSIVE SortScores(_)
SortScores(scores) ==
    IF scores = <<>> THEN <<>>
    ELSE LET rest == SortScores(Tail(scores))
             before == SelectSeq(rest, LAMBDA x : ~FracLeq(scores[1], x))
             after == SelectSeq(rest, LAMBDA x : FracLeq(scores[1], x))
         IN before \o <<scores[1]>> \o after

\* lines 284-293
MedianScore(sorted) ==
    IF sorted = <<>> THEN Frac(0, 1)
    ELSE LET mid == Len(sorted) \div 2
         IN IF Len(sorted) % 2 = 0
            THEN FracDiv(FracAdd(sorted[mid], sorted[mid + 1]), 2)
            ELSE sorted[mid + 1]

\* ResultStats::calculate
ResultStatsCalculate(rs) ==
    LET scores == [i \in 1..Len(rs) |-> ScoreOf(rs[i])]
    IN [total_students |-> Len(rs),
        total_tests |-> IF rs = <<>> THEN 0 ELSE Len(rs[1].tests),
        average_score |-> IF Len(rs) > 0 THEN FracDiv(SumScores(scores), Len(rs))
                          ELSE Frac(0, 1),
        median_score |-> MedianScore(SortScores(scores)),
        students_processed |-> Len(rs),
        errors |-> 0]

-----------------------------------------------------------------------------
(* ui/app.rs: fetch_results, the single-deadline grading run of the user interface *)

\* FetchProgress without its status messages; FetchProgress::new(0) is the first
FetchProgress(total_students, completed, current_student, errors) ==
    [total_students |-> total_students, completed |-> completed,
     current_student |-> current_student, errors |-> errors]

FetchingResults(dl, progress) ==
    [tag |-> "FetchingResults", deadline |-> dl, progress |-> progress]
ResultsComplete(stats) == [tag |-> "ResultsComplete", stats |-> stats]

\* lines 718-745: the first progress state and get_assignment(assignment.id).await?
FetchResults_GetAssignment ==
    /\ pc = "fetch_results"
    /\ state' = FetchingResults(deadline, FetchProgress(0, 0, "", 0))
    /\ trace' = Append(trace, Call("get_assignment", 0, 0))
    /\ IF assignment_response.ok
       THEN pc' = "fetch_list_accepted" /\ ret' = ret
       ELSE BatchFails
    /\ UNCHANGED <<loopVars, listVars, envVars, lateVars, csv_file, accepted_assignments, test_definitions,
                   index, results, studentVars, parseVars>>

\* lines 748-768: list_accepted_assignments(assignment.id).await?, the empty check, and
\* progress.total_students
FetchResults_ListAccepted ==
    /\ pc = "fetch_list_accepted"
    /\ trace' = Append(trace, Call("list_accepted_assignments", 0, 0))
    /\ IF accepted_response.ok /\ accepted_response.val # <<>>
       THEN /\ accepted_assignments' = accepted_response.val
            /\ state' = [state EXCEPT !.progress.total_students = Len(accepted_response.val)]
            /\ pc' = "fetch_test_definitions"
            /\ ret' = ret
       ELSE /\ BatchFails
            /\ UNCHANGED <<loopVars, listVars, accepted_assignments, state>>
    /\ UNCHANGED <<loopVars, listVars, envVars, lateVars, csv_file, test_definitions, index, results,
                   studentVars, parseVars>>

\* lines 771-782: the first student's identifier is split and used as it comes
FetchResults_TestDefinitionsOf(assignment, roster, file) ==
    IF IsSome(assignment.starter_code_url)
    THEN FetchTestDefinitionsFrom(Unwrap(assignment.starter_code_url), file)
    ELSE ParseWorkflow(file)

\* whether lines 771-782 get as far as get_file_contents
FetchResults_RequestsWorkflowFile(assignment) ==
    IsSome(assignment.starter_code_url) =>
        Len(Split(TrimEndMatches(Unwrap(assignment.starter_code_url), "/"), "/")) >= 2

\* lines 770-795
FetchResults_TestDefinitions ==
    /\ pc = "fetch_test_definitions"
    /\ LET found == FetchResults_TestDefinitionsOf(assignment_response.val,
                                                   accepted_assignments, workflow_response)
       IN IF found.ok
          THEN /\ test_definitions' = found.val
               /\ pc' = "loop"
               /\ ret' = ret
          ELSE /\ BatchFails
               /\ test_definitions' = test_definitions
    /\ trace' = IF FetchResults_RequestsWorkflowFile(assignment_response.val)
                THEN Append(trace, FileCall(ReferenceRepository(assignment_response.val,
                                                                accepted_assignments)))
                ELSE trace
    /\ UNCHANGED <<loopVars, listVars, envVars, lateVars, uiVars, accepted_assignments, index, results,
                   studentVars, parseVars>>

\* progress.errors as the Err arms of lines 839-843 have left it when control is back at
\* the loop: the state holds the count published last, and the resolution since has
\* failed or not
ErrorsSoFar == state.progress.errors + (IF student_ret = "Err" THEN 1 ELSE 0)

\* lines 799-822: the loop head publishes the progress, then fetch_student_results runs
\* up to its first await
FetchResults_NextStudent ==
    /\ pc = "loop"
    /\ index < Len(accepted_assignments)
    /\ state' = FetchingResults(deadline,
                    FetchProgress(state.progress.total_students, index,
                                  Username(accepted_assignments[index + 1]), ErrorsSoFar))
    /\ run' = None
    /\ autograding_job' = None
    /\ tests' = <<>>
    /\ scored' = 0
    /\ total_awarded' = 0
    /\ summary' = <<>>
    /\ points' = None
    /\ IF InvalidRepository(accepted_assignments[index + 1].full_name)
       THEN StudentFails
       ELSE /\ student_ret' = "running"
            /\ pc' = "list_runs"
            /\ UNCHANGED <<loopVars, listVars, ret, index, results>>
    /\ UNCHANGED <<loopVars, listVars, envVars, lateVars, csv_file, accepted_assignments, test_definitions,
                   trace>>

\* lines 847-876: the last progress state, export_to_csv(&results)?, the statistics
FetchResults_Complete ==
    /\ pc = "loop"
    /\ index = Len(accepted_assignments)
    /\ LET progress == FetchProgress(state.progress.total_students,
                                     Len(accepted_assignments),
                                     state.progress.current_student, ErrorsSoFar)
           exported == ExportToCsv(results)
       IN IF exported.ok
          THEN /\ csv_file' = Some(exported.val)
               /\ state' = ResultsComplete(ResultStatsCalculate(results))
               /\ ret' = "Ok"
          ELSE /\ csv_file' = csv_file
               /\ state' = FetchingResults(deadline, progress)
               /\ ret' = "Err"
    /\ pc' = "done"
    /\ UNCHANGED <<loopVars, listVars, envVars, lateVars, accepted_assignments, test_definitions, index,
                   results, studentVars, parseVars, trace>>

\* the grading run of the user interface: the assignment-level inputs in full, one answer
\* per stage a student's resolution can stop at.  A malformed identifier names no
\* repository, so the workflow file of the first student is not there when it is asked
\* for under such an identifier.
InitFetch ==
    \E a \in {Err} \cup {Ok(x) : x \in Assignments},
       r \in Rosters,
       accOk \in BOOLEAN,
       wf \in {Err, Ok(WorkflowA), Ok(WorkflowNoTests), Ok(WorkflowDup)},
       dl \in {None, Some(2)} :
        \E worlds \in [1..Len(r) -> BatchWorlds
                                      \cup {World(Ok(RunsOk), Ok(<<GradingJob(1, StepsB)>>), Err)}] :
            /\ \A i \in 1..Len(r) :
                  InvalidRepository(r[i].full_name) => worlds[i] = World(Err, Err, Err)
            /\ accOk \/ r = <<>>
            /\ (a = Ok([starter_code_url |-> None]) /\ r # <<>>
                /\ InvalidRepository(r[1].full_name)) => wf = Err
            /\ InitEnv(a, IF accOk THEN Ok(r) ELSE Err, wf, worlds, dl)
            /\ progress_callback = FALSE
            /\ InitProgram("fetch_results", <<>>)
            /\ NoLateGrading
            /\ NoUi

-----------------------------------------------------------------------------
(* api/classroom.rs: the paginated listings of ClassroomClient *)

\* the safety limits on the number of pages, the page sizes asked for, the attempts a
\* page of accepted assignments gets and the seconds slept between two attempts
ClassroomPageLimit == 10
AssignmentPageLimit == 10
AcceptedPageLimit == 100
ListPerPage == 100
AcceptedPerPage == 30
Retries == 3
RetryDelaySecs == 2

ListingMethods == {"list_classrooms", "list_assignments", "list_accepted_assignments"}

\* mutant of PageLimit: every listing has the limit of list_accepted_assignments
PageLimit_AllAccepted(method) == AcceptedPageLimit

PageLimit(method) ==
    CASE method = "list_classrooms" -> ClassroomPageLimit
      [] method = "list_assignments" -> AssignmentPageLimit
      [] method = "list_accepted_assignments" -> AcceptedPageLimit

PerPage(method) ==
    IF method = "list_accepted_assignments" THEN AcceptedPerPage ELSE ListPerPage

\* the ways ClassroomClient::get fails: the request gets no answer, the status is not a
\* success, the body is not the JSON expected
GetErrors == {"network", "status", "decode"}

\* the context list_accepted_assignments puts on the error it gives up with
AfterRetries == "Failed to fetch accepted assignments after 3 retries"

\* what the API holds: `pages` non-empty pages, then an empty one, then (when `more`)
\* non-empty pages again; pages hold two items and one item in turn
ListItem(p, i) == [page |-> p, place |-> i]
PageItems(p) == [i \in 1..(1 + (p % 2)) |-> ListItem(p, i)]
ServerPage(held, p) ==
    IF p <= held.pages \/ (held.more /\ p > held.pages + 1) THEN PageItems(p) ELSE <<>>

\* the bounds on the API's content and on its failures
MaxFewPages == 2
MaxErrors == 3

\* the numbers of non-empty pages tried with a method: a few, and around its limit
PageCounts(method) ==
    (0..MaxFewPages) \cup {PageLimit(method) - 1, PageLimit(method), PageLimit(method) + 1}

\* the errors the first attempts at one page meet: none, or one kind up to MaxErrors times
ErrorRuns == {<<>>} \cup {[i \in 1..c |-> kind] : kind \in GetErrors, c \in 1..MaxErrors}

\* the entries of trace a listing leaves: a GET of one page, a sleep
PageRequest(p) ==
    [op |-> "get", method |-> endpoint, page |-> p, per_page |-> PerPage(endpoint)]
Slept == [op |-> "sleep", secs |-> RetryDelaySecs]

\* how many times page p has been requested so far
Requested(p) ==
    Cardinality({i \in DOMAIN trace : trace[i].op = "get" /\ trace[i].page = p})

\* ClassroomClient::get for page p, now: an error while the errors set for that page
\* last, the page the API holds after that
GetPage(p) ==
    LET errors == IF p \in DOMAIN page_responses.errors
                  THEN page_responses.errors[p] ELSE <<>>
    IN IF Requested(p) < Len(errors) THEN Failed(errors[Requested(p) + 1])
       ELSE Ok(ServerPage(page_responses, p))

\* one turn of the loop of list_classrooms and of list_assignments
ListPage(method) ==
    /\ pc = "list"
    /\ endpoint = method
    /\ trace' = Append(trace, PageRequest(page))
    /\ LET got == GetPage(page) IN
         IF ~got.ok
         THEN /\ list_ret' = Some(Failed(<<got.val>>))
              /\ pc' = "done"
              /\ UNCHANGED <<page, all_items>>
         ELSE IF got.val = <<>>
         THEN /\ list_ret' = Some(Ok(all_items))
              /\ pc' = "done"
              /\ UNCHANGED <<page, all_items>>
         ELSE /\ all_items' = all_items \o got.val
              /\ page' = page + 1
              /\ IF page + 1 > PageLimit(method)
                 THEN list_ret' = Some(Ok(all_items \o got.val)) /\ pc' = "done"
                 ELSE list_ret' = list_ret /\ pc' = pc
    /\ UNCHANGED <<loopVars, envVars, lateVars, uiVars, ret, accepted_assignments, test_definitions,
                   index, results, studentVars, parseVars, retries>>

ListClassrooms == ListPage("list_classrooms")

ListAssignments == ListPage("list_assignments")

\* mutant of ListAcceptedAssignments_Attempt: one attempt budget for the whole listing
ListAcceptedAssignments_SharedBudget ==
    /\ pc = "list"
    /\ endpoint = "list_accepted_assignments"
    /\ trace' = Append(trace, PageRequest(page))
    /\ LET got == GetPage(page) IN
         IF ~got.ok
         THEN /\ retries' = retries - 1
              /\ IF retries - 1 = 0
                 THEN list_ret' = Some(Failed(<<AfterRetries, got.val>>)) /\ pc' = "done"
                 ELSE list_ret' = list_ret /\ pc' = "list_sleep"
              /\ UNCHANGED <<page, all_items>>
         ELSE IF got.val = <<>>
         THEN /\ list_ret' = Some(Ok(all_items))
              /\ pc' = "done"
              /\ UNCHANGED <<page, all_items, retries>>
         ELSE /\ all_items' = all_items \o got.val
              /\ page' = page + 1
              /\ retries' = retries
              /\ IF page + 1 > AcceptedPageLimit
                 THEN list_ret' = Some(Ok(all_items \o got.val)) /\ pc' = "done"
                 ELSE list_ret' = list_ret /\ pc' = pc
    /\ UNCHANGED <<loopVars, envVars, lateVars, uiVars, ret, accepted_assignments, test_definitions,
                   index, results, studentVars, parseVars>>

\* one attempt at a page in list_accepted_assignments
ListAcceptedAssignments_Attempt ==
    /\ pc = "list"
    /\ endpoint = "list_accepted_assignments"
    /\ trace' = Append(trace, PageRequest(page))
    /\ LET got == GetPage(page) IN
         IF ~got.ok
         THEN /\ retries' = retries - 1
              /\ IF retries - 1 = 0
                 THEN list_ret' = Some(Failed(<<AfterRetries, got.val>>)) /\ pc' = "done"
                 ELSE list_ret' = list_ret /\ pc' = "list_sleep"
              /\ UNCHANGED <<page, all_items>>
         ELSE IF got.val = <<>>
         THEN /\ list_ret' = Some(Ok(all_items))
              /\ pc' = "done"
              /\ UNCHANGED <<page, all_items, retries>>
         ELSE /\ all_items' = all_items \o got.val
              /\ page' = page + 1
              /\ retries' = Retries
              /\ IF page + 1 > AcceptedPageLimit
                 THEN list_ret' = Some(Ok(all_items \o got.val)) /\ pc' = "done"
                 ELSE list_ret' = list_ret /\ pc' = pc
    /\ UNCHANGED <<loopVars, envVars, lateVars, uiVars, ret, accepted_assignments, test_definitions,
                   index, results, studentVars, parseVars>>

\* the sleep between two attempts at the same page
ListAcceptedAssignments_Sleep ==
    /\ pc = "list_sleep"
    /\ trace' = Append(trace, Slept)
    /\ pc' = "list"
    /\ UNCHANGED <<loopVars, listVars, envVars, lateVars, uiVars, ret, accepted_assignments,
                   test_definitions, index, results, studentVars, parseVars>>

\* one call of a listing method, for every content of the API tried and every run of
\* errors on the first and on the second page
InitList ==
    \E method \in ListingMethods, more \in BOOLEAN, errors \in ErrorRuns \X ErrorRuns :
        \E n \in PageCounts(method) :
            /\ InitEnvPaged(Err, Err, Err, <<>>, None, method,
                            [pages |-> n, more |-> more, errors |-> errors])
            /\ progress_callback = FALSE
            /\ InitProgram("list", <<>>)
            /\ NoLateGrading
            /\ NoUi

-----------------------------------------------------------------------------
(* models/mod.rs: ResultStats::calculate over any completed batch *)

\* the largest batch handed to ResultStats::calculate
MaxBatch == 3

\* the totals a result of the batch may hold: awarded above, at and below available,
\* nothing available
TotalSamples == {0, 5, 15} \X {0, 15, 20}

\* a StudentResult with k tests and the totals given
SampleTests(k) ==
    [i \in 1..k |-> [key |-> "t" \o ToString(i),
                     value |-> [name |-> "t" \o ToString(i), points_awarded |-> 0,
                                points_available |-> 5, passed |-> FALSE]]]
SampleResult(k, totals) ==
    [username |-> "s", repo_url |-> "https://github.com/o/s", workflow_run_timestamp |-> 1,
     tests |-> SampleTests(k), total_awarded |-> totals[1], total_available |-> totals[2]]

\* a batch of any totals; the first result has 0..MaxDefs tests, the others one
InitStats ==
    \E totals \in SeqsUpTo(TotalSamples, MaxBatch), k \in 0..MaxDefs :
        /\ InitEnv(Err, Err, Err, <<>>, None)
        /\ progress_callback = FALSE
        /\ InitProgramWith("stats",  <<>>,
               [i \in 1..Len(totals) |-> SampleResult(IF i = 1 THEN k ELSE 1, totals[i])])
        /\ NoLateGrading
        /\ NoUi

\* app.rs 867-869: the statistics of the batch become the ResultsComplete state
CalculateStats ==
    /\ pc = "stats"
    /\ state' = ResultsComplete(ResultStatsCalculate(results))
    /\ pc' = "done"
    /\ UNCHANGED <<loopVars, listVars, envVars, lateVars, csv_file, ret, accepted_assignments,
                   test_definitions, index, results, studentVars, parseVars, trace>>

\* the answers that stop a student's chain of calls at each place, with the later
\* answers ready all the same: no run with a conclusion, no list of jobs, no job of the
\* exact name (none at all, another one, one whose name differs in case), the job
\* after another one, two jobs of the name, no log
NearMissJob(id) == [id |-> id, name |-> "Run-Autograding-Tests", steps |-> StepsA]
CallWorlds ==
    {World(Err, Ok(<<GradingJob(1, StepsA)>>), Ok(Log_Points12of15)),
     World(Ok(<<Run(1, 3, None)>>), Ok(<<GradingJob(1, StepsA)>>), Ok(Log_Points12of15)),
     World(Ok(RunsOk), Err, Ok(Log_Points12of15)),
     World(Ok(RunsOk), Ok(<<>>), Ok(Log_Points12of15)),
     World(Ok(RunsOk), Ok(<<BuildJob(1)>>), Ok(Log_Points12of15)),
     World(Ok(RunsOk), Ok(<<NearMissJob(1)>>), Ok(Log_Points12of15)),
     World(Ok(RunsOk), Ok(<<BuildJob(1), GradingJob(2, StepsA)>>), Ok(Log_Points12of15)),
     World(Ok(RunsOk), Ok(<<GradingJob(3, StepsA), GradingJob(2, <<>>)>>), Err)}

\* one or two students, each with any of these answers, with and without deadline
InitCalls ==
    \E r \in {<<Alice>>, <<Alice, Bob>>}, dl \in {None, Some(2)} :
        \E worlds \in [1..Len(r) -> CallWorlds] :
            InitWith(Ok([starter_code_url |-> None]), Ok(r), Ok(WorkflowA), worlds, dl)

-----------------------------------------------------------------------------
(* api/github.rs: list_workflow_runs (lines 86-108) and what GitHub answers *)

\* the page size in the one path list_workflow_runs builds; the path names no page
RunsPerPage == 100

\* mutant of FirstPage: the answer holds every run of the repository
AllPages(held) == held

\* GitHub's answer to a request without a page number: the first per_page runs it holds
FirstPage(held) == SubSeq(held, 1, IF Len(held) < RunsPerPage THEN Len(held) ELSE RunsPerPage)

\* n runs with distinct creation times after the deadline of the samples, listed from the
\* newest (as GitHub does) or from the oldest; `open` is the set of places in the list
\* whose run has no conclusion
HeldRuns(n, newest_first, open) ==
    [i \in 1..n |-> Run(i, IF newest_first THEN n + 3 - i ELSE i + 2,
                        IF i \in open THEN None ELSE Some("success"))]

\* repositories holding one run less than a page, a page, and more than a page, with
\* every run concluded or only the runs beyond the first page concluded
Repositories ==
    {HeldRuns(n, newest_first, open) :
        n \in (RunsPerPage - 1)..(RunsPerPage + 2), newest_first \in BOOLEAN,
        open \in {{}, 1..RunsPerPage}}

\* one or two students whose repositories hold these runs, with and without deadline
InitPages ==
    \E r \in {<<Alice>>, <<Alice, Bob>>}, dl \in {None, Some(2)} :
        \E repos \in [1..Len(r) -> Repositories] :
            /\ InitEnvFull(Ok([starter_code_url |-> None]), Ok(r), Ok(WorkflowA),
                   [i \in 1..Len(r) |-> World(Ok(FirstPage(repos[i])),
                                              Ok(<<GradingJob(1, StepsA)>>),
                                              Ok(Log_Points12of15))],
                   dl, "none", NoPages, Err, Err, repos)
            /\ progress_callback = TRUE
            /\ InitProgram("get_assignment", <<>>)
            /\ NoLateGrading
            /\ NoUi

-----------------------------------------------------------------------------
(* The workflow documents parse_workflow is given *)

\* the steps of a document: a graded step, a checkout step with and without name, a
\* step with a max-score that is no u32, and a step of the autograder without name
YamlGraded(i) ==
    [name |-> Some(StepNames[i]), id |-> Some(StepIds[i]), uses |-> Some(AutograderUses),
     with |-> Some([test_name |-> Some(StepNames[i]), max_score |-> Some(5)])]
YamlSteps(i) ==
    {YamlGraded(i),
     [name |-> Some("Checkout code"), id |-> None, uses |-> Some(CheckoutUses), with |-> None],
     [name |-> None, id |-> None, uses |-> Some(CheckoutUses), with |-> None],
     [name |-> Some("Report"), id |-> None, uses |-> None,
      with |-> Some([test_name |-> None, max_score |-> Some(-1)])],
     [name |-> None, id |-> Some(StepIds[i]), uses |-> Some(AutograderUses),
      with |-> Some([test_name |-> Some(StepNames[i]), max_score |-> Some(5)])]}

\* the lists of at most n such steps
RECURSIVE YamlStepLists(_)
YamlStepLists(n) ==
    IF n = 0 THEN {<<>>}
    ELSE LET shorter == YamlStepLists(n - 1)
         IN shorter \cup {Append(l, st) : l \in {x \in shorter : Len(x) = n - 1},
                                          st \in YamlSteps(n)}

\* the jobs beside the autograding job: none, a job with a named step, a job that has
\* no steps (it calls a reusable workflow), a job with a step without name
OtherJobs ==
    {<<>>,
     <<[steps |-> Some(<<[name |-> Some("Build"), id |-> None, uses |-> None, with |-> None]>>)]>>,
     <<[steps |-> None]>>,
     <<[steps |-> Some(<<[name |-> None, id |-> None, uses |-> Some(CheckoutUses),
                          with |-> None]>>)]>>}

YamlDocument(steps, other) ==
    [jobs |-> IF other = <<>> THEN (AutogradingJobName :> [steps |-> Some(steps)])
              ELSE (AutogradingJobName :> [steps |-> Some(steps)]) @@ ("build" :> other[1])]

\* parser::parse_workflow alone, on every such document
InitYaml ==
    \E steps \in YamlStepLists(MaxWorkflowSteps), other \in OtherJobs :
        /\ InitEnvRest(Err, Err, <<>>, None, "none", NoPages, Err, Err, <<>>)
        /\ yaml_content = Some(YamlDocument(steps, other))
        /\ workflow_response = FromStr(YamlDocument(steps, other))
        /\ progress_callback = FALSE
        /\ InitProgram("parse_workflow", <<>>)
        /\ NoLateGrading
        /\ NoUi

-----------------------------------------------------------------------------
(* ui/app.rs: handle_key_event (lines 107-710) and load_classrooms (lines 83-105) *)

\* the variants of AppState the selection screens and the forms are in
ClassroomSelection(classrooms, selected_index) ==
    [tag |-> "ClassroomSelection", classrooms |-> classrooms, selected_index |-> selected_index]
LoadingAssignments(classroom) == [tag |-> "LoadingAssignments", classroom |-> classroom]
AssignmentSelection(classroom, assignments, selected_index) ==
    [tag |-> "AssignmentSelection", classroom |-> classroom, assignments |-> assignments,
     selected_index |-> selected_index]
AssignmentOptions(classroom, assignment, selected_index) ==
    [tag |-> "AssignmentOptions", classroom |-> classroom, assignment |-> assignment,
     selected_index |-> selected_index]
GradingModeSelection(classroom, assignment, selected_index) ==
    [tag |-> "GradingModeSelection", classroom |-> classroom, assignment |-> assignment,
     selected_index |-> selected_index]
DeadlineInput(classroom, assignment, date_input, time_input, focused_field) ==
    [tag |-> "DeadlineInput", classroom |-> classroom, assignment |-> assignment,
     date_input |-> date_input, time_input |-> time_input, focused_field |-> focused_field]
\* LateGradingInput with the field the cursor is in
LateGradingForm(classroom, assignment, form, focused_field) ==
    [tag |-> "LateGradingInput", classroom |-> classroom, assignment |-> assignment,
     on_time_date |-> form.on_time_date, on_time_time |-> form.on_time_time,
     late_date |-> form.late_date, late_time |-> form.late_time,
     penalty_input |-> form.penalty_input, focused_field |-> focused_field]

\* the key codes: 'q', a character other than 'q', the keys some arm names, and a key no
\* arm names
CharKeys == {"1"}
Keys == {"q", "Up", "Down", "Enter", "Esc", "Tab", "BackTab", "Backspace", "F1"} \cup CharKeys

\* what a call of handle_key_event comes to: the state it leaves, and how it goes on:
\* "continue" (it returns Ok(false)), "quit" (it returns Ok(true)), "panic", "fetch" (it
\* has entered fetch_results with the deadline and is at its first sleep, lines 718-729),
\* "fetch_late" (it has entered fetch_late_results)
Continue(st) == [state |-> st, then |-> "continue", deadline |-> None]
Quit == [state |-> LoadingClassrooms, then |-> "quit", deadline |-> None]
Panic == [state |-> LoadingClassrooms, then |-> "panic", deadline |-> None]
FetchWith(dl) ==
    [state |-> [tag |-> "FetchingResults", deadline |-> dl,
                progress |-> [total_students |-> 0, completed |-> 0,
                              current_student |-> "", errors |-> 0]],
     then |-> "fetch", deadline |-> dl]
FetchLateWith(st) == [state |-> st, then |-> "fetch_late", deadline |-> None]

\* load_classrooms: the state it leaves
LoadClassroomsState ==
    IF classrooms_response.ok
    THEN IF classrooms_response.val = <<>> THEN ErrorState("No classrooms found")
         ELSE ClassroomSelection(classrooms_response.val, 0)
    ELSE ErrorState("Failed to load classrooms")

\* the match on list_assignments(classroom.id).await (lines 143-156 and 222-236)
LoadAssignmentsState(classroom) ==
    IF assignments_response.ok
    THEN AssignmentSelection(classroom, assignments_response.val, 0)
    ELSE ErrorState("Failed to load assignments")

\* if selected_index > 0 { selected_index -= 1 }
MoveUp(selected_index) == IF selected_index > 0 THEN selected_index - 1 ELSE selected_index
\* if selected_index < last { selected_index += 1 }
MoveDown(selected_index, last) ==
    IF selected_index < last THEN selected_index + 1 ELSE selected_index
\* usize::saturating_sub(1)
SaturatingPred(n) == IF n = 0 THEN 0 ELSE n - 1

\* lines 112-165
OnClassroomSelection(st, key) ==
    CASE key = "q" -> Quit
      [] key = "Up" -> Continue([st EXCEPT !.selected_index = MoveUp(@)])
      [] key = "Down" ->
            Continue([st EXCEPT !.selected_index =
                                    MoveDown(@, SaturatingPred(Len(st.classrooms)))])
      [] key = "Enter" ->
            IF st.selected_index >= Len(st.classrooms) THEN Panic
            ELSE Continue(LoadAssignmentsState(st.classrooms[st.selected_index + 1]))
      [] OTHER -> Continue(st)

\* lines 166-213
OnAssignmentSelection(st, key) ==
    CASE key = "q" -> Quit
      [] key = "Esc" -> Continue(LoadClassroomsState)
      [] key = "Up" -> Continue([st EXCEPT !.selected_index = MoveUp(@)])
      [] key = "Down" ->
            Continue([st EXCEPT !.selected_index =
                                    MoveDown(@, SaturatingPred(Len(st.assignments)))])
      [] key = "Enter" ->
            IF st.selected_index >= Len(st.assignments) THEN Panic
            ELSE Continue(AssignmentOptions(st.classroom,
                                            st.assignments[st.selected_index + 1], 0))
      [] OTHER -> Continue(st)

\* mutant of OnAssignmentOptions: a key no arm names leaves the placeholder
OnAssignmentOptions_DropsState(st, key) ==
    CASE key = "q" -> Quit
      [] key = "Esc" -> Continue(LoadAssignmentsState(st.classroom))
      [] key = "Up" -> Continue([st EXCEPT !.selected_index = MoveUp(@)])
      [] key = "Down" -> Continue([st EXCEPT !.selected_index = MoveDown(@, 2)])
      [] key = "Enter" ->
            CASE st.selected_index = 0 -> FetchWith(None)
              [] st.selected_index = 1 ->
                    Continue(DeadlineInput(st.classroom, st.assignment, <<>>, <<>>, "Date"))
              [] st.selected_index = 2 ->
                    Continue(GradingModeSelection(st.classroom, st.assignment, 0))
              [] OTHER -> Continue(LoadingClassrooms)
      [] OTHER -> Continue(LoadingClassrooms)

\* lines 214-294; in the Enter arm `_ => {}` leaves the placeholder
OnAssignmentOptions(st, key) ==
    CASE key = "q" -> Quit
      [] key = "Esc" -> Continue(LoadAssignmentsState(st.classroom))
      [] key = "Up" -> Continue([st EXCEPT !.selected_index = MoveUp(@)])
      [] key = "Down" -> Continue([st EXCEPT !.selected_index = MoveDown(@, 2)])
      [] key = "Enter" ->
            CASE st.selected_index = 0 -> FetchWith(None)
              [] st.selected_index = 1 ->
                    Continue(DeadlineInput(st.classroom, st.assignment, <<>>, <<>>, "Date"))
              [] st.selected_index = 2 ->
                    Continue(GradingModeSelection(st.classroom, st.assignment, 0))
              [] OTHER -> Continue(LoadingClassrooms)
      [] OTHER -> Continue(st)

\* String::push when the field is shorter than its limit, String::pop
Push(field, c, limit) == IF Len(field) < limit THEN Append(field, c) ELSE field
Pop(field) == IF field = <<>> THEN field ELSE SubSeq(field, 1, Len(field) - 1)

\* lines 295-390
OnDeadlineInput(st, key) ==
    CASE key = "q" -> Quit
      [] key = "Esc" -> Continue(AssignmentOptions(st.classroom, st.assignment, 0))
      [] key = "Tab" ->
            Continue([st EXCEPT !.focused_field = IF @ = "Date" THEN "Time" ELSE "Date"])
      [] key \in CharKeys ->
            Continue(IF st.focused_field = "Date"
                     THEN [st EXCEPT !.date_input = Push(@, key, 10)]
                     ELSE [st EXCEPT !.time_input = Push(@, key, 5)])
      [] key = "Backspace" ->
            Continue(IF st.focused_field = "Date"
                     THEN [st EXCEPT !.date_input = Pop(@)]
                     ELSE [st EXCEPT !.time_input = Pop(@)])
      [] key = "Enter" ->
            IF IsSome(ParseDeadline(st.date_input, st.time_input))
            THEN FetchWith(ParseDeadline(st.date_input, st.time_input))
            ELSE Continue(ErrorState("Invalid deadline"))
      [] OTHER -> Continue(st)

\* what the late-grading form starts with (lines 440-449)
EmptyLateForm == LateGradingInput(<<>>, <<>>, <<>>, <<>>, Chars_20)

\* lines 391-468
OnGradingModeSelection(st, key) ==
    CASE key = "q" -> Quit
      [] key = "Esc" -> Continue(AssignmentOptions(st.classroom, st.assignment, 2))
      [] key = "Up" -> Continue([st EXCEPT !.selected_index = MoveUp(@)])
      [] key = "Down" -> Continue([st EXCEPT !.selected_index = MoveDown(@, 1)])
      [] key = "Enter" ->
            CASE st.selected_index = 0 ->
                    Continue(DeadlineInput(st.classroom, st.assignment, <<>>, <<>>, "Date"))
              [] st.selected_index = 1 ->
                    Continue(LateGradingForm(st.classroom, st.assignment, EmptyLateForm,
                                             "OnTimeDate"))
              [] OTHER -> Continue(st)
      [] OTHER -> Continue(st)

\* the fields of the late-grading form in Tab order, with their length limits
LateFields == <<"OnTimeDate", "OnTimeTime", "LateDate", "LateTime", "Penalty">>
FieldPlace(field) == CHOOSE i \in 1..5 : LateFields[i] = field
EditLateField(st, edit(_, _)) ==
    CASE st.focused_field = "OnTimeDate" -> [st EXCEPT !.on_time_date = edit(@, 10)]
      [] st.focused_field = "OnTimeTime" -> [st EXCEPT !.on_time_time = edit(@, 5)]
      [] st.focused_field = "LateDate" -> [st EXCEPT !.late_date = edit(@, 10)]
      [] st.focused_field = "LateTime" -> [st EXCEPT !.late_time = edit(@, 5)]
      [] OTHER -> [st EXCEPT !.penalty_input = edit(@, 5)]

\* lines 469-672; Enter: the three validations, then fetch_late_results
OnLateGradingInput(st, key) ==
    CASE key = "q" -> Quit
      [] key = "Esc" -> Continue(GradingModeSelection(st.classroom, st.assignment, 1))
      [] key = "Tab" ->
            Continue([st EXCEPT !.focused_field = LateFields[(FieldPlace(@) % 5) + 1]])
      [] key = "BackTab" ->
            Continue([st EXCEPT !.focused_field = LateFields[((FieldPlace(@) + 3) % 5) + 1]])
      [] key \in CharKeys -> Continue(EditLateField(st, LAMBDA f, limit : Push(f, key, limit)))
      [] key = "Backspace" -> Continue(EditLateField(st, LAMBDA f, limit : Pop(f)))
      [] key = "Enter" ->
            LET on_time_deadline == ParseDeadline(st.on_time_date, st.on_time_time)
                late_deadline == ParseDeadline(st.late_date, st.late_time)
                penalty == PenaltyFraction(st.penalty_input)
            IN IF ~IsSome(on_time_deadline)
               THEN Continue(ErrorState("Invalid on-time deadline format"))
               ELSE IF ~IsSome(late_deadline)
               THEN Continue(ErrorState("Invalid late deadline format"))
               ELSE IF ~IsSome(penalty)
               THEN Continue(ErrorState("Invalid penalty percentage"))
               ELSE FetchLateWith(FetchingLateResults(Unwrap(on_time_deadline),
                                                      Unwrap(late_deadline), Unwrap(penalty)))
      [] OTHER -> Continue(st)

\* lines 673-700: ResultsComplete and Error
OnResultOrError(st, key) ==
    CASE key = "q" -> Quit
      [] key \in {"Enter", "Esc"} -> Continue(LoadClassroomsState)
      [] OTHER -> Continue(st)

\* the match on current_state, the placeholder being in self.state meanwhile
KeyOutcome(st, key) ==
    CASE st.tag = "ClassroomSelection" -> OnClassroomSelection(st, key)
      [] st.tag = "AssignmentSelection" -> OnAssignmentSelection(st, key)
      [] st.tag = "AssignmentOptions" -> OnAssignmentOptions(st, key)
      [] st.tag = "DeadlineInput" -> OnDeadlineInput(st, key)
      [] st.tag = "GradingModeSelection" -> OnGradingModeSelection(st, key)
      [] st.tag = "LateGradingInput" -> OnLateGradingInput(st, key)
      [] st.tag \in {"ResultsComplete", "Error"} -> OnResultOrError(st, key)
      [] OTHER -> Continue(st)

-----------------------------------------------------------------------------
(* ui/app.rs: run (lines 33-57) and event_loop (lines 59-81), one task: between two    *)
(* terminal.draw calls the loop awaits handle_key_event to its end.  The listing calls *)
(* of the selection screens are not recorded in trace.                                *)

MaxKeys == 3
MaxPending == 1

\* the user presses a key; the terminal holds it until event::read takes it.  `during`
\* notes the variant App::state was in at that moment.
KeyPressed ==
    /\ pressed < MaxKeys
    /\ Len(key_events) < MaxPending
    /\ pc \notin {"quit", "panicked", "failed"}
    /\ \E key \in Keys :
           key_events' = Append(key_events, [code |-> key, during |-> state.tag])
    /\ pressed' = pressed + 1
    /\ UNCHANGED <<listVars, envVars, lateVars, uiVars, batchVars, studentVars, parseVars,
                   trace, screen>>

\* run, line 42: self.load_classrooms().await? before the event loop
LoadClassrooms ==
    /\ pc = "load_classrooms"
    /\ state' = LoadClassroomsState
    /\ pc' = "draw"
    /\ UNCHANGED <<loopVars, listVars, envVars, lateVars, csv_file, ret, accepted_assignments,
                   test_definitions, index, results, studentVars, parseVars, trace>>

\* line 65: terminal.draw(|f| self.render(f))
Draw ==
    /\ pc = "draw"
    /\ screen' = Some(state)
    /\ pc' = "poll"
    /\ UNCHANGED <<listVars, envVars, lateVars, uiVars, ret, accepted_assignments,
                   test_definitions, index, results, studentVars, parseVars, trace,
                   pressed, key_events>>

\* line 68: event::poll(50 ms) finds no event
PollTimesOut ==
    /\ pc = "poll"
    /\ key_events = <<>>
    /\ pc' = "sleep"
    /\ UNCHANGED <<loopVars, listVars, envVars, lateVars, uiVars, ret, accepted_assignments,
                   test_definitions, index, results, studentVars, parseVars, trace>>

\* lines 68-73: event::read and handle_key_event(key).await?, up to its return or to the
\* first await of the fetch it enters
HandleKeyEvent ==
    /\ pc = "poll"
    /\ key_events # <<>>
    /\ LET outcome == KeyOutcome(state, Head(key_events).code)
       IN /\ state' = outcome.state
          /\ pc' = CASE outcome.then = "continue" -> "sleep"
                     [] outcome.then = "quit" -> "quit"
                     [] outcome.then = "panic" -> "panicked"
                     [] outcome.then = "fetch" -> "fetch_results"
                     [] OTHER -> "late_get_assignment"
          /\ deadline' = IF outcome.then = "fetch" THEN outcome.deadline ELSE deadline
    /\ key_events' = Tail(key_events)
    /\ UNCHANGED <<listVars, lateVars, csv_file, ret, accepted_assignments, test_definitions,
                   index, results, studentVars, parseVars, trace, pressed, screen,
                   assignment_response, accepted_response, workflow_response,
                   runs_response, jobs_response, logs_response, progress_callback,
                   endpoint, page_responses, classrooms_response, assignments_response,
                   repository_runs, yaml_content>>

\* fetch_results returns into handle_key_event: Ok(()) lets it return Ok(false) and the
\* locals of the fetch are dropped; an error is propagated by `?` out of event_loop and run
FetchResults_Returns ==
    /\ pc = "done"
    /\ pc' = IF ret = "Ok" THEN "sleep" ELSE "failed"
    /\ ret' = IF ret = "Ok" THEN "running" ELSE ret
    /\ accepted_assignments' = <<>>
    /\ test_definitions' = <<>>
    /\ index' = 0
    /\ results' = <<>>
    /\ student_ret' = "none"
    /\ run' = None
    /\ autograding_job' = None
    /\ tests' = <<>>
    /\ scored' = 0
    /\ total_awarded' = 0
    /\ UNCHANGED <<loopVars, listVars, envVars, lateVars, uiVars, parseVars, trace>>

\* line 77: the 10 ms sleep that ends a turn of the loop
LoopSleep ==
    /\ pc = "sleep"
    /\ pc' = "draw"
    /\ UNCHANGED <<loopVars, listVars, envVars, lateVars, uiVars, ret, accepted_assignments,
                   test_definitions, index, results, studentVars, parseVars, trace>>

\* what the listings of the selection screens answer, and the inputs of a fetch: one
\* student resolved, one student failing
Classroom(id) == [id |-> id]
ListedAssignment(id) == [id |-> id]
ClassroomAnswers == {Err, Ok(<<>>), Ok(<<Classroom(1), Classroom(2)>>)}
AssignmentAnswers == {Err, Ok(<<>>), Ok(<<ListedAssignment(1), ListedAssignment(2)>>)}
GoodWorld == World(Ok(RunsOk), Ok(<<GradingJob(1, StepsA)>>), Ok(Log_Points12of15))
AppFetches ==
    {[roster |-> <<Alice>>, worlds |-> <<GoodWorld>>],
     [roster |-> <<Alice>>, worlds |-> <<World(Err, Err, Err)>>]}

\* the application as App::new leaves it, and on the screens a user gets to with more
\* keys than MaxKeys: the options of an assignment, the grading modes, the two forms
AppStarts ==
    {[pc |-> "load_classrooms", state |-> LoadingClassrooms],
     [pc |-> "draw", state |-> AssignmentOptions(Classroom(1), ListedAssignment(1), 0)],
     [pc |-> "draw", state |-> GradingModeSelection(Classroom(1), ListedAssignment(1), 0)],
     [pc |-> "draw", state |-> DeadlineInput(Classroom(1), ListedAssignment(1), <<>>, <<>>,
                                             "Date")],
     [pc |-> "draw", state |-> LateGradingForm(Classroom(1), ListedAssignment(1),
                                               EmptyLateForm, "OnTimeDate")]}

InitAppEnv(cls, asg, fetch) ==
    /\ InitEnvFull(Ok([starter_code_url |-> None]), Ok(fetch.roster), Ok(WorkflowA),
                   fetch.worlds, None, "none", NoPages, cls, asg, OnePage(fetch.worlds))
    /\ progress_callback = FALSE
    /\ NoLateGrading
    /\ csv_file = None

InitApp ==
    \E cls \in ClassroomAnswers, asg \in AssignmentAnswers, fetch \in AppFetches,
       start \in AppStarts :
        /\ InitAppEnv(cls, asg, fetch)
        /\ InitProgram(start.pc, <<>>)
        /\ state = start.state

\* handle_key_event alone: called with any key in any state the enum has, the menus with
\* each index they reach; the event loop goes on from there
KeyStates ==
    {LoadingClassrooms, LoadingAssignments(Classroom(1)),
     FetchingResults(None, FetchProgress(1, 0, "alice", 0)),
     FetchingLateResults(1, 2, 200000),
     ResultsComplete(ResultStatsCalculate(<<>>)), ErrorState("Failed to load classrooms"),
     ClassroomSelection(<<Classroom(1), Classroom(2)>>, 1),
     AssignmentSelection(Classroom(1), <<ListedAssignment(1)>>, 0),
     DeadlineInput(Classroom(1), ListedAssignment(1), Chars_2024_01_03, Chars_00_00, "Time")}
    \cup {AssignmentOptions(Classroom(1), ListedAssignment(1), i) : i \in 0..2}
    \cup {GradingModeSelection(Classroom(1), ListedAssignment(1), i) : i \in 0..1}
    \cup {LateGradingForm(Classroom(1), ListedAssignment(1), EmptyLateForm, f) :
            f \in {"OnTimeDate", "Penalty"}}

InitKey ==
    \/ InitApp
    \/ /\ InitAppEnv(Ok(<<Classroom(1), Classroom(2)>>),
                     Ok(<<ListedAssignment(1), ListedAssignment(2)>>),
                     [roster |-> <<Alice>>, worlds |-> <<GoodWorld>>])
       /\ InitLocals("poll", <<>>, <<>>)
       /\ \E st \in KeyStates, key \in Keys :
              /\ state = st
              /\ key_events = <<[code |-> key, during |-> st.tag]>>
       /\ pressed = 1
       /\ screen = Some(state)

NextApp ==
    \/ KeyPressed
    \/ LoadClassrooms
    \/ Draw
    \/ PollTimesOut
    \/ HandleKeyEvent
    \/ LoopSleep
    \/ FetchResults_GetAssignment
    \/ FetchResults_ListAccepted
    \/ FetchResults_TestDefinitions
    \/ FetchResults_NextStudent
    \/ ListWorkflowRuns
    \/ ListJobsForRun
    \/ ScoreTest
    \/ SumPoints
    \/ GetJobLogs
    \/ FetchResults_Complete
    \/ FetchResults_Returns

SpecApp == InitApp /\ [][NextApp]_vars
SpecKey == InitKey /\ [][NextApp]_vars

Next ==
    \/ GetAssignment
    \/ ListAcceptedAssignments
    \/ FetchTestDefinitions
    \/ NextStudent
    \/ ListWorkflowRuns
    \/ ListJobsForRun
    \/ ScoreTest
    \/ SumPoints
    \/ GetJobLogs
    \/ Return

NextParse == ParsePoints

NextExtract == ParseWorkflowFile

NextLate == FetchAllLateResults

NextUi ==
    \/ HandleKeyEnter
    \/ FetchLateResults_GetAssignment
    \/ FetchLateResults_ListAccepted

NextFetch ==
    \/ FetchResults_GetAssignment
    \/ FetchResults_ListAccepted
    \/ FetchResults_TestDefinitions
    \/ FetchResults_NextStudent
    \/ ListWorkflowRuns
    \/ ListJobsForRun
    \/ ScoreTest
    \/ SumPoints
    \/ GetJobLogs
    \/ FetchResults_Complete

NextList ==
    \/ ListClassrooms
    \/ ListAssignments
    \/ ListAcceptedAssignments_Attempt
    \/ ListAcceptedAssignments_Sleep

NextStats == CalculateStats

Spec == Init /\ [][Next]_vars
SpecRuns == InitRuns /\ [][Next]_vars
SpecBatch == InitBatch /\ [][Next]_vars
SpecPair == InitPair /\ [][Next]_vars
SpecSteps == InitSteps /\ [][Next]_vars
SpecParse == InitParse /\ [][NextParse]_vars
SpecExtract == InitExtract /\ [][NextExtract]_vars
SpecLate == InitLate /\ [][NextLate]_vars
SpecUi == InitUi /\ [][NextUi]_vars
SpecRepo == InitRepo /\ [][Next]_vars
SpecFetch == InitFetch /\ [][NextFetch]_vars

SpecPages == InitPages /\ [][Next]_vars
SpecYaml == InitYaml /\ [][NextExtract]_vars
SpecCalls == InitCalls /\ [][Next]_vars
SpecList == InitList /\ [][NextList]_vars
SpecStats == InitStats /\ [][NextStats]_vars
SpecListFair == SpecList /\ WF_vars(NextList)

-----------------------------------------------------------------------------
(* Vocabulary of the properties *)

\* the roster position of the fetch_student_results call in progress, or of the last one
Cur == IF student_ret = "running" THEN index + 1 ELSE index

\* the student at Cur finished with Ok(StudentResult), which is the last of results
JustResolved == student_ret = "Ok" /\ pc \in {"loop", "done"}
LastResult == results[Len(results)]

HasConclusion(r) == r.conclusion # None
ConcludedPlaces(rs) == {i \in 1..Len(rs) : HasConclusion(rs[i])}

\* the run selection has been made for the student at Cur
RunSelected == IsSome(run) /\ runs_response[Cur].ok
Selected == Unwrap(run)
Listed == runs_response[Cur].val

-----------------------------------------------------------------------------
(* C1 *)

C1_Places == {i \in ConcludedPlaces(Listed) : Listed[i].created_at >= Unwrap(deadline)}

-----------------------------------------------------------------------------
(* C2 *)

\* the student at Cur failed in the run selection
NoRunChosen ==
    /\ student_ret = "Err"
    /\ Cur >= 1
    /\ ~InvalidRepository(accepted_assignments[Cur].full_name)
    /\ run = None

\* C2: without a deadline the selected run is a listed run with a conclusion whose
\* created_at is the greatest among the listed runs with a conclusion; a run without
\* conclusion is never selected; and a run is selected whenever one has a conclusion.
C2_LatestConcludedRun ==
    /\ (deadline = None /\ RunSelected) =>
          \E i \in ConcludedPlaces(Listed) :
              /\ Listed[i] = Selected
              /\ \A j \in ConcludedPlaces(Listed) :
                    Listed[i].created_at >= Listed[j].created_at
    /\ (deadline = None /\ NoRunChosen) =>
          (~runs_response[Cur].ok \/ ConcludedPlaces(Listed) = {})

\* no deadline, and the newest listed run has no conclusion
C2_Witness ==
    /\ deadline = None
    /\ RunSelected
    /\ \E i \in 1..Len(Listed) :
          ~HasConclusion(Listed[i]) /\ Listed[i].created_at > Selected.created_at

-----------------------------------------------------------------------------
(* C3 *)

\* the identifier has a non-empty owner before its first "/" and a non-empty name after it
C3_WellFormed(full_name) ==
    \E k \in 2..(Len(full_name) - 1) :
        /\ full_name[k] = "/"
        /\ \A m \in 1..(k - 1) : full_name[m] # "/"
        /\ full_name[k + 1] # "/"

\* every stage of the resolution of roster entry i succeeds
C3_Resolves(i) ==
    /\ C3_WellFormed(accepted_assignments[i].full_name)
    /\ runs_response[i].ok
    /\ ConcludedPlaces(runs_response[i].val) # {}
    /\ jobs_response[i].ok
    /\ \E k \in 1..Len(jobs_response[i].val) :
          jobs_response[i].val[k].name = "run-autograding-tests"

C3_ResolvedUpTo(n) == {i \in 1..n : C3_Resolves(i)}
\* the k-th smallest element of a set of numbers
C3_Nth(S, k) == CHOOSE p \in S : Cardinality({q \in S : q <= p}) = k

\* C3: once the loop over the roster has begun the batch never fails; results holds one
\* StudentResult for each roster entry handled so far that resolves, in roster order,
\* and nothing for an entry that fails; the batch returns Ok after the last entry.
C3_FailedStudentsAreSkipped ==
    test_definitions # <<>> =>
        /\ ret # "Err"
        /\ Len(results) = Cardinality(C3_ResolvedUpTo(index))
        /\ \A k \in 1..Len(results) :
              LET student == accepted_assignments[C3_Nth(C3_ResolvedUpTo(index), k)]
              IN /\ results[k].username = student.students[1]
                 /\ results[k].repo_url = student.html_url
        /\ (pc = "done" => ret = "Ok" /\ index = Len(accepted_assignments))

\* the batch returned Ok although an entry failed, and an entry after it is in the result
C3_Witness ==
    /\ pc = "done"
    /\ ret = "Ok"
    /\ Len(results) >= 1
    /\ \E i \in 1..Len(accepted_assignments) :
          /\ ~C3_Resolves(i)
          /\ \E j \in (i + 1)..Len(accepted_assignments) : C3_Resolves(j)

-----------------------------------------------------------------------------
(* C4 *)

\* the sum of points_awarded over the tests of a StudentResult
C4_SumAwarded(r) ==
    LET Upto[k \in 0..Len(r.tests)] ==
            IF k = 0 THEN 0 ELSE Upto[k - 1] + r.tests[k].value.points_awarded
    IN Upto[Len(r.tests)]

\* C4: once the autograding job is found the student always gets a StudentResult, and
\* when the log gave no number (its fetch failed, or parse_points_from_summary returned
\* None) total_awarded is the sum of points_awarded over the result's tests.
C4_ProvisionalTotalKept ==
    /\ (IsSome(autograding_job) /\ student_ret # "running") => JustResolved
    /\ (JustResolved /\ (~logs_response[Cur].ok \/ points = None)) =>
          LastResult.total_awarded = C4_SumAwarded(LastResult)

\* scenario A: the log is read, holds no number, and the step total is not zero
C4_Witness ==
    /\ JustResolved
    /\ logs_response[Cur].ok
    /\ points = None
    /\ LastResult.total_awarded = 5
    /\ Len(LastResult.tests) = 2

-----------------------------------------------------------------------------
(* C5 *)

\* the sum of max_score over the declarations
DeclaredTotal ==
    LET Upto[k \in 0..Len(test_definitions)] ==
            IF k = 0 THEN 0 ELSE Upto[k - 1] + test_definitions[k].max_score
    IN Upto[Len(test_definitions)]

\* the StudentResult that the state before the log request determines
C5_WithoutLog ==
    [username |-> accepted_assignments[index + 1].students[1],
     repo_url |-> accepted_assignments[index + 1].html_url,
     workflow_run_timestamp |-> Unwrap(run).created_at,
     tests |-> tests,
     total_awarded |-> total_awarded,
     total_available |-> DeclaredTotal]

\* C5: the step that reads the log appends the StudentResult determined before the log
\* was read, as it is when the log gives no number, and with only total_awarded replaced
\* by the number when the log gives one: tests (values and order), total_available,
\* username, repo_url and workflow_run_timestamp do not depend on the log.
C5_LogReplacesOnlyTotal ==
    [][pc = "get_logs" =>
         results' = Append(results,
                           IF logs_response[index + 1].ok /\ IsSome(points')
                           THEN [C5_WithoutLog EXCEPT !.total_awarded = Unwrap(points')]
                           ELSE C5_WithoutLog)]_vars

\* scenario B: the steps give 5 of 15 and the log says 12
C5_Witness ==
    /\ JustResolved
    /\ logs_response[Cur].ok
    /\ points = Some(12)
    /\ LastResult.total_awarded = 12
    /\ C4_SumAwarded(LastResult) = 5
    /\ LastResult.total_available = 15

-----------------------------------------------------------------------------
(* C6 *)

JobSteps == Unwrap(autograding_job).steps
\* the first step named n exists and its conclusion is "success"
FirstStepSucceeded(n) ==
    \E i \in 1..Len(JobSteps) :
        /\ JobSteps[i].name = n
        /\ \A j \in 1..(i - 1) : JobSteps[j].name # n
        /\ JobSteps[i].conclusion = Some("success")

\* the declaration the loop has just handled, and the entry stored under its name
JustScored == test_definitions[scored]
EntryOf(n) == tests[CHOOSE e \in 1..Len(tests) : tests[e].key = n].value

\* C6: right after the loop has handled a declaration, the TestResult stored under the
\* declaration's name has points_awarded = max_score and passed = TRUE when the first job
\* step with that name concluded "success", and points_awarded = 0 and passed = FALSE in
\* every other case (another conclusion, no conclusion, no step with that name).
C6_StepDecidesTest ==
    (pc = "score_tests" /\ scored >= 1) =>
        /\ \E e \in 1..Len(tests) : tests[e].key = JustScored.name
        /\ EntryOf(JustScored.name).name = JustScored.name
        /\ EntryOf(JustScored.name).passed = FirstStepSucceeded(JustScored.name)
        /\ EntryOf(JustScored.name).points_awarded =
              (IF FirstStepSucceeded(JustScored.name) THEN JustScored.max_score ELSE 0)

\* two steps carry the declaration's name: the first failed, the second succeeded
C6_Witness ==
    /\ pc = "score_tests"
    /\ scored >= 1
    /\ JustScored.max_score > 0
    /\ Len(JobSteps) = 2
    /\ JobSteps[1] = JobStep(JustScored.name, Some("failure"))
    /\ JobSteps[2] = JobStep(JustScored.name, Some("success"))
    /\ EntryOf(JustScored.name).points_awarded = 0

-----------------------------------------------------------------------------
(* C7 *)

\* the declaration a stored TestResult was built from: the last one with its name
BuiltFrom(n) ==
    test_definitions[MaxOf({k \in 1..Len(test_definitions) : test_definitions[k].name = n})]

\* C7: every TestResult of every StudentResult has 0 <= points_awarded <=
\* points_available, and points_available is the max_score of the declaration the entry
\* was built from.
C7_PointsWithinBounds ==
    \A i \in 1..Len(results) :
        \A e \in 1..Len(results[i].tests) :
            LET t == results[i].tests[e].value
            IN /\ 0 <= t.points_awarded
               /\ t.points_awarded <= t.points_available
               /\ \E k \in 1..Len(test_definitions) : test_definitions[k].name = t.name
               /\ t.points_available = BuiltFrom(t.name).max_score

\* a result with a failed test worth its declaration's 10 points and a passed one
C7_Witness ==
    /\ JustResolved
    /\ \E e \in 1..Len(LastResult.tests) :
          /\ LastResult.tests[e].value.points_awarded = 0
          /\ LastResult.tests[e].value.points_available = 10
    /\ \E e \in 1..Len(LastResult.tests) :
          /\ LastResult.tests[e].value.points_awarded = 5
          /\ LastResult.tests[e].value.points_available = 5

-----------------------------------------------------------------------------
(* C8 *)

\* C8 as stated: every StudentResult holds exactly one TestResult per declaration, in the
\* order of the declaration list.
C8_OneTestPerDeclaration ==
    \A i \in 1..Len(results) :
        /\ Len(results[i].tests) = Len(test_definitions)
        /\ \A k \in 1..Len(results[i].tests) :
              /\ results[i].tests[k].key = test_definitions[k].name
              /\ results[i].tests[k].value.name = test_definitions[k].name
              /\ results[i].tests[k].value.points_available = test_definitions[k].max_score

-----------------------------------------------------------------------------
(* C9 *)

\* C9: total_available of every StudentResult is the sum of max_score over all the
\* declarations, whatever the run, the steps and the log were; so it is the same for all
\* the StudentResults of a batch.
C9_TotalAvailableIsDeclaredTotal ==
    /\ \A i \in 1..Len(results) : results[i].total_available = DeclaredTotal
    /\ \A i, j \in 1..Len(results) : results[i].total_available = results[j].total_available

\* two results of one batch that differ in their tests and in total_awarded
C9_Witness ==
    /\ Len(results) = 2
    /\ results[1].tests # results[2].tests
    /\ results[1].total_awarded # results[2].total_awarded
    /\ results[1].total_available = results[2].total_available
    /\ \E i, j \in 1..Len(test_definitions) :
          i # j /\ test_definitions[i].name = test_definitions[j].name

-----------------------------------------------------------------------------
(* C10 *)

AtWord(s, i) == i + 5 <= Len(s) /\ \A k \in 0..5 : s[i + k] = PointsWord[k + 1]

\* the token that ends the stretch s[from..upto]: its last maximal run of non-whitespace
TokenEnd(s, from, upto) == MaxOf({e \in from..upto : s[e] \notin Whitespace})
TokenStart(s, from, upto) ==
    MinOf({b \in from..TokenEnd(s, from, upto) :
             \A k \in b..TokenEnd(s, from, upto) : s[k] \notin Whitespace})
HasToken(s, from, upto) == \E e \in from..upto : s[e] \notin Whitespace
TokenOf(s, from, upto) == SubSeq(s, TokenStart(s, from, upto), TokenEnd(s, from, upto))

\* decimal digits after an optional "+", denoting a number of at most 4294967295
Unsigned(tok) ==
    LET ds == IF tok[1] = "+" THEN SubSeq(tok, 2, Len(tok)) ELSE tok
        lead == {k \in 1..Len(ds) : ds[k] # "0"}
        sig == IF lead = {} THEN <<"0">> ELSE SubSeq(ds, MinOf(lead), Len(ds))
    IN /\ Len(ds) >= 1
       /\ \A k \in 1..Len(ds) : ds[k] \in Digit
       /\ \/ Len(sig) < 10
          \/ Len(sig) = 10 /\ ~DigitsGreater(sig, U32MaxDigits)
NumberOf(tok) ==
    LET ds == IF tok[1] = "+" THEN SubSeq(tok, 2, Len(tok)) ELSE tok
        Val[k \in 0..Len(ds)] == IF k = 0 THEN 0 ELSE 10 * Val[k - 1] + DigitVal(ds[k])
    IN Val[Len(ds)]

\* the number, if any, that the token ending the stretch s[from..upto] denotes
NumberBefore(s, from, upto) ==
    IF HasToken(s, from, upto) /\ Unsigned(TokenOf(s, from, upto))
    THEN Some(NumberOf(TokenOf(s, from, upto)))
    ELSE None

\* case (1): the token before the first "/" after the first "Points"
Case1(s) ==
    LET words == {i \in 1..Len(s) : AtWord(s, i)}
        first == MinOf(words)
        slashes == {j \in (first + 6)..Len(s) : s[j] = "/"}
    IN IF words = {} \/ slashes = {} THEN None
       ELSE NumberBefore(s, first + 6, MinOf(slashes) - 1)

LineStart(s, j) == 1 + MaxOf({0} \cup {k \in 1..(j - 1) : s[k] = "\n"})
\* the places of the "/" that are the first "/" of their line
LineSlashes(s) ==
    {j \in 1..Len(s) : s[j] = "/" /\ \A k \in LineStart(s, j)..(j - 1) : s[k] # "/"}
LineNumber(s, j) == NumberBefore(s, LineStart(s, j), j - 1)

\* case (2) as stated: only the first line that contains "/" is consulted
Case2_FirstSlashLine(s) ==
    IF LineSlashes(s) = {} THEN None ELSE LineNumber(s, MinOf(LineSlashes(s)))

\* case (2) as the code has it: the first line whose token before its first "/" is a number
Case2_FirstNumberLine(s) ==
    LET good == {j \in LineSlashes(s) : LineNumber(s, j) # None}
    IN IF good = {} THEN None ELSE LineNumber(s, MinOf(good))

\* C10 as stated: the parser yields the number of case (1), else the number of the first
\* line that contains "/", else nothing; later lines containing "/" are not consulted.
C10_Original ==
    pc = "parsed" =>
        points = (IF Case1(summary) # None THEN Case1(summary)
                  ELSE Case2_FirstSlashLine(summary))

\* C10, amended: the parser yields the number of case (1); else the number of the first
\* line, in order, that contains "/" AND whose whitespace-delimited token before its first
\* "/" is an unsigned integer (lines containing "/" without such a token are passed over
\* and later lines are consulted); else nothing.  An unsigned integer is what u32's
\* parse accepts: decimal digits, optionally after one "+", at most 4294967295.
C10_FirstNumberLine ==
    pc = "parsed" =>
        points = (IF Case1(summary) # None THEN Case1(summary)
                  ELSE Case2_FirstNumberLine(summary))

\* a log whose first line with "/" has no number before the "/" and a later line has one
C10_Witness ==
    /\ pc = "parsed"
    /\ IsSome(points)
    /\ Case1(summary) = None
    /\ Case2_FirstSlashLine(summary) = None

-----------------------------------------------------------------------------
(* C11 *)

\* the collaborator calls named op made so far for roster position k
CallsFor(op, k) == {i \in 1..Len(trace) : trace[i].op = op /\ trace[i].index = k}

\* list_workflow_runs answered for position k with no run that has a conclusion
NoCompletedRun(k) == runs_response[k].ok /\ ConcludedPlaces(runs_response[k].val) = {}

\* the results built for the roster entry at position k
ResultsOf(k) ==
    {i \in 1..Len(results) : results[i].repo_url = accepted_assignments[k].html_url}

\* C11: when list_workflow_runs returns no run with a conclusion for a student (an empty
\* list, or only runs without conclusion), the student's resolution ends in an error as
\* soon as the list is in: no StudentResult is ever built for that student, and neither
\* list_jobs_for_run nor get_job_logs is ever called for them.
C11_NoCompletedRunFails ==
    \A k \in 1..Len(accepted_assignments) :
        NoCompletedRun(k) =>
            /\ CallsFor("list_jobs_for_run", k) = {}
            /\ CallsFor("get_job_logs", k) = {}
            /\ ResultsOf(k) = {}
            /\ CallsFor("list_workflow_runs", k) # {} =>
                  /\ index >= k
                  /\ (Cur = k => student_ret = "Err" /\ run = None)

\* the batch is over and the student's only listed runs had no conclusion
C11_Witness ==
    /\ pc = "done"
    /\ ret = "Ok"
    /\ \E k \in 1..Len(accepted_assignments) :
          /\ NoCompletedRun(k)
          /\ runs_response[k].val # <<>>
          /\ CallsFor("list_workflow_runs", k) # {}
          /\ Cur = k
          /\ student_ret = "Err"

-----------------------------------------------------------------------------
(* C12 *)

\* C12: the workflow_run_timestamp of every StudentResult is the created_at of a run that
\* list_workflow_runs returned for that student and that has a conclusion, and that run is
\* the one whose id the only list_jobs_for_run call for the student was given.
C12_TimestampOfTheRunRead ==
    \A k \in 1..Len(accepted_assignments) :
        \A i \in ResultsOf(k) :
            /\ runs_response[k].ok
            /\ Cardinality(CallsFor("list_jobs_for_run", k)) = 1
            /\ \E j \in ConcludedPlaces(runs_response[k].val) :
                  /\ runs_response[k].val[j].created_at = results[i].workflow_run_timestamp
                  /\ \A c \in CallsFor("list_jobs_for_run", k) :
                        trace[c].id = runs_response[k].val[j].id

\* a result whose run was listed with a run of another time and a run without conclusion
C12_Witness ==
    /\ JustResolved
    /\ \E k \in 1..Len(accepted_assignments) :
          /\ ResultsOf(k) # {}
          /\ \E a, b \in 1..Len(runs_response[k].val) :
                /\ ~HasConclusion(runs_response[k].val[a])
                /\ HasConclusion(runs_response[k].val[b])
                /\ runs_response[k].val[a].created_at # LastResult.workflow_run_timestamp
                /\ runs_response[k].val[b].created_at = LastResult.workflow_run_timestamp

-----------------------------------------------------------------------------
(* C13 *)

\* the run ids the list_jobs_for_run calls for roster position k were given
RunIdsRead(k) == {trace[c].id : c \in CallsFor("list_jobs_for_run", k)}

\* the place in the list rs that the list and the deadline alone single out: among the
\* runs with a conclusion, the first of the earliest with a deadline, the last of the
\* latest without one
C13_Place(rs, dl) ==
    LET places == ConcludedPlaces(rs)
        earliest == {i \in places : \A j \in places : rs[i].created_at <= rs[j].created_at}
        latest == {i \in places : \A j \in places : rs[i].created_at >= rs[j].created_at}
    IN IF IsSome(dl) THEN MinOf(earliest) ELSE MaxOf(latest)

\* both resolutions of the batch are past their run selection and their list_jobs_for_run
C13_BothSelected == index = 2 \/ (index = 1 /\ pc \in {"score_tests", "get_logs"})

\* C13: run selection is deterministic.  Two resolutions in one batch that are given the
\* same list of runs and the same deadline (or none) select the same run or both select
\* none, also when several runs with a conclusion share the extreme created_at; the run
\* selected is the one the list and the deadline alone single out.
C13_SameRunsSameSelection ==
    /\ (RunSelected /\ ConcludedPlaces(Listed) # {}) =>
          Selected = Listed[C13_Place(Listed, deadline)]
    /\ (Len(accepted_assignments) = 2 /\ runs_response[1] = runs_response[2]
          /\ C13_BothSelected) =>
          /\ RunIdsRead(1) = RunIdsRead(2)
          /\ Cardinality(RunIdsRead(1)) <= 1
          /\ \A i \in ResultsOf(1), j \in ResultsOf(2) :
                results[i].workflow_run_timestamp = results[j].workflow_run_timestamp

\* two resolutions over a list in which two runs with a conclusion share the extreme time
C13_Witness ==
    /\ pc = "done"
    /\ Len(results) = 2
    /\ runs_response[1] = runs_response[2]
    /\ \E a, b \in ConcludedPlaces(runs_response[1].val) :
          /\ a # b
          /\ runs_response[1].val[a].created_at = results[1].workflow_run_timestamp
          /\ runs_response[1].val[b].created_at = results[1].workflow_run_timestamp

-----------------------------------------------------------------------------
(* C14 *)

C14_RosterEmpty == accepted_response.ok /\ accepted_response.val = <<>>

\* the workflow file cannot be read or parsed, has no grading job, or yields no declaration
C14_NoDeclarations ==
    \/ ~workflow_response.ok
    \/ AutogradingJobName \notin DOMAIN workflow_response.val.jobs
    \/ KeptSteps(workflow_response.val.jobs[AutogradingJobName].steps) = <<>>

\* every "/" of the url is among its trailing ones: no owner/name can be cut out of it
C14_NoPath(url) == \A i \in 1..Len(url) : url[i] = "/" => \A j \in i..Len(url) : url[j] = "/"

\* the repository the workflow file is to be read from cannot be named
C14_NoReferenceRepository ==
    /\ assignment_response.ok
    /\ accepted_response.ok
    /\ accepted_response.val # <<>>
    /\ IF IsSome(assignment_response.val.starter_code_url)
       THEN C14_NoPath(Unwrap(assignment_response.val.starter_code_url))
       ELSE ~C3_WellFormed(accepted_response.val[1].full_name)

\* nothing was done for any roster entry: no result, no progress callback, no call
C14_NoStudentTouched ==
    /\ results = <<>>
    /\ index = 0
    /\ student_ret = "none"
    /\ \A i \in 1..Len(trace) : trace[i].op # "progress" /\ trace[i].index = 0

\* C14 as stated: fetch_all_results returns an error if and only if the roster is empty
\* or the test declarations cannot be extracted; no other collaborator failure makes
\* the batch fail; when it fails no student is resolved and the progress observer is
\* never invoked.
C14_Original ==
    /\ pc = "done" => (ret = "Err" <=> (C14_RosterEmpty \/ C14_NoDeclarations))
    /\ ret = "Err" => C14_NoStudentTouched

\* C14, amended: fetch_all_results returns an error if and only if get_assignment fails,
\* list_accepted_assignments fails, the roster is empty, the reference repository cannot
\* be named (a starter url without a path, or no starter and a malformed identifier of
\* the first roster entry), or the test declarations cannot be extracted; no failure of
\* list_workflow_runs, list_jobs_for_run or get_job_logs makes the batch fail; when it
\* fails no student is resolved and the progress observer is never invoked.
C14_FailsOnlyBeforeTheLoop ==
    /\ pc = "done" =>
          (ret = "Err" <=> \/ ~assignment_response.ok
                           \/ ~accepted_response.ok
                           \/ C14_RosterEmpty
                           \/ C14_NoReferenceRepository
                           \/ C14_NoDeclarations)
    /\ ret = "Err" => C14_NoStudentTouched

\* a batch with an observer that failed for want of declarations, roster and assignment fine
C14_Witness ==
    /\ pc = "done"
    /\ ret = "Err"
    /\ progress_callback
    /\ assignment_response.ok
    /\ accepted_response.ok
    /\ Len(accepted_response.val) = MaxStudents
    /\ workflow_response.ok
    /\ C14_NoDeclarations
    /\ ~C14_NoReferenceRepository

-----------------------------------------------------------------------------
(* C15 *)

\* the places of trace at which the progress observer was invoked
ProgressPlaces == {i \in 1..Len(trace) : trace[i].op = "progress"}

\* the places of trace that are collaborator calls for roster position k
StudentCalls(k) == {i \in 1..Len(trace) : trace[i].op # "progress" /\ trace[i].index = k}

\* the only invocation of the observer for roster position k
C15_Place(k) == CHOOSE i \in ProgressPlaces : trace[i].index = k

\* C15: a batch driver that was given a progress observer invokes it exactly once per
\* roster entry, in roster order, with the 1-based position of the entry, the roster size
\* and the entry's student handle; the invocation for an entry comes after every
\* collaborator call of the entries before it (their resolutions are over) and before
\* every collaborator call of its own entry.
C15_ObserverOncePerEntry ==
    progress_callback =>
        /\ \A i \in ProgressPlaces :
              /\ trace[i].index \in 1..Len(accepted_assignments)
              /\ trace[i].total = Len(accepted_assignments)
              /\ trace[i].who = accepted_assignments[trace[i].index].students[1]
              /\ \A j \in ProgressPlaces : i < j => trace[i].index < trace[j].index
        /\ \A k \in 1..Len(accepted_assignments) :
              /\ Cardinality({i \in ProgressPlaces : trace[i].index = k}) = (IF k <= Cur THEN 1 ELSE 0)
              /\ k > Cur => StudentCalls(k) = {}
              /\ k <= Cur =>
                    /\ \A c \in StudentCalls(k) : C15_Place(k) < c
                    /\ \A h \in 1..(k - 1) : \A c \in StudentCalls(h) : c < C15_Place(k)
                    /\ (k < Cur \/ student_ret # "running") =>
                          Cardinality(ResultsOf(k)) \in {0, 1}
        /\ (pc = "done" /\ ret = "Ok") => Cur = Len(accepted_assignments)

\* a batch with an observer is over: one entry was resolved, another failed
C15_Witness ==
    /\ progress_callback
    /\ pc = "done"
    /\ ret = "Ok"
    /\ Len(accepted_assignments) = MaxStudents
    /\ Cardinality(ProgressPlaces) = MaxStudents
    /\ Len(results) \in 1..(MaxStudents - 1)

-----------------------------------------------------------------------------
(* C16 *)

\* the combination is done; its records
Combined == pc = "combined"
Records == {late_grading_results[i] : i \in 1..Len(late_grading_results)}

\* n is an integer nearest to awarded * (1 - p)
C16_Nearest(n, awarded, p) ==
    LET exact == awarded * (PenaltyUnit - p)
        off == n * PenaltyUnit - exact
    IN 2 * off <= PenaltyUnit /\ 2 * off >= -PenaltyUnit

\* C16: in every combined record, a late total that does not exceed the on-time total
\* leaves finalScore equal to the on-time total, whatever the penalty; otherwise finalScore
\* is late total * (1 - p) rounded to the nearest integer.  On-time 15, late 10, p 0.2
\* gives 15; on-time 5, late 15, p 0.2 gives 12.
C16_FinalScore ==
    Combined =>
        \A rec \in Records :
            LET on_time == rec.on_time_result.total_awarded
                late == rec.late_result.total_awarded
            IN /\ late <= on_time => rec.final_score = on_time
               /\ late > on_time => C16_Nearest(rec.final_score, late, late_penalty)
               /\ (on_time = 15 /\ late = 10 /\ 5 * late_penalty = PenaltyUnit) =>
                     rec.final_score = 15
               /\ (on_time = 5 /\ late = 15 /\ 5 * late_penalty = PenaltyUnit) =>
                     rec.final_score = 12

\* scenario F beside scenario E: a penalised late total and an untouched on-time total
C16_Witness ==
    /\ Combined
    /\ 5 * late_penalty = PenaltyUnit
    /\ \E e, f \in Records :
          /\ e.on_time_result.total_awarded = 15 /\ e.late_result.total_awarded = 10
          /\ e.final_score = 15
          /\ f.on_time_result.total_awarded = 5 /\ f.late_result.total_awarded = 15
          /\ f.final_score = 12

-----------------------------------------------------------------------------
(* C17 *)

Handles(batch) == {batch[i].username : i \in 1..Len(batch)}

\* C17: the output holds exactly one record per student handle that has a result in the
\* on-time batch and in the late batch, built from that handle's two results; a handle
\* with a result in one batch only has no record.
C17_PairedHandlesOnly ==
    Combined =>
        /\ Handles(late_grading_results) = Handles(on_time_results) \cap Handles(late_results)
        /\ \A h \in Handles(late_grading_results) :
              Cardinality(PlacesOf(late_grading_results, h)) = 1
        /\ \A i \in 1..Len(late_grading_results) :
              LET rec == late_grading_results[i]
              IN /\ \E a \in PlacesOf(on_time_results, rec.username) :
                        rec.on_time_result = on_time_results[a]
                 /\ \E b \in PlacesOf(late_results, rec.username) :
                        rec.late_result = late_results[b]

\* one handle in both batches, one in the on-time batch only, or in the late batch only
C17_Witness ==
    /\ Combined
    /\ Len(late_grading_results) = 1
    /\ Handles(on_time_results) # Handles(late_results)
    /\ Cardinality(Handles(on_time_results) \cup Handles(late_results)) = 2

-----------------------------------------------------------------------------
(* C18 *)

AllDigits(ds) == ds # <<>> /\ \A i \in 1..Len(ds) : ds[i] \in Digit
AllZeros(ds) == \A i \in 1..Len(ds) : ds[i] = "0"

\* the text is YYYY-MM-DD (fewer digits allowed) and names a day of the calendar
C18_IsDate(s) ==
    LET parts == Split(s, "-")
    IN /\ Len(parts) = 3
       /\ \A i \in 1..3 : AllDigits(parts[i])
       /\ Len(parts[1]) <= 4 /\ Len(parts[2]) <= 2 /\ Len(parts[3]) <= 2
       /\ DigitsValue(parts[2], 0) \in 1..12
       /\ DigitsValue(parts[3], 0) >= 1
       /\ DigitsValue(parts[3], 0) <=
             DaysInMonth(DigitsValue(parts[1], 0), DigitsValue(parts[2], 0))

\* the text is HH:MM (fewer digits allowed) and names a minute of the day
C18_IsTime(s) ==
    LET parts == Split(s, ":")
    IN /\ Len(parts) = 2
       /\ \A i \in 1..2 : AllDigits(parts[i])
       /\ Len(parts[1]) <= 2 /\ Len(parts[2]) <= 2
       /\ DigitsValue(parts[1], 0) <= 23
       /\ DigitsValue(parts[2], 0) <= 59

\* the text is a decimal number, and the number is in 0..100
C18_IsPercentage(s) ==
    LET minus == s # <<>> /\ s[1] = "-"
        body == IF s # <<>> /\ s[1] \in {"+", "-"} THEN Tail(s) ELSE s
        parts == Split(body, ".")
        whole == StripZeros(parts[1])
        frac == IF Len(parts) = 2 THEN parts[2] ELSE <<>>
    IN /\ Len(parts) <= 2
       /\ AllDigits(whole \o frac)
       /\ minus => AllZeros(whole \o frac)
       /\ \/ Len(whole) <= 2
          \/ whole = <<"1", "0", "0">> /\ AllZeros(frac)

C18_ValidForm(form) ==
    /\ C18_IsDate(form.on_time_date) /\ C18_IsTime(form.on_time_time)
    /\ C18_IsDate(form.late_date) /\ C18_IsTime(form.late_time)
    /\ C18_IsPercentage(form.penalty_input)

C18_IsDeadline(dt) ==
    /\ dt.date[2] \in 1..12
    /\ dt.date[3] \in 1..DaysInMonth(dt.date[1], dt.date[2])
    /\ dt.time[1] \in 0..23
    /\ dt.time[2] \in 0..59

\* what holds at every moment
C18_Started ==
    /\ state.tag = "FetchingLateResults" =>
          /\ state.late_penalty >= 0
          /\ state.late_penalty <= PenaltyUnit
          /\ C18_IsDeadline(state.on_time_deadline)
          /\ C18_IsDeadline(state.late_deadline)
    /\ state.tag # "FetchingLateResults" => (trace = <<>> /\ pc = "ui")

\* what Enter does to the form
C18_Enter ==
    state.tag = "LateGradingInput" =>
        IF C18_ValidForm(state)
        THEN state'.tag = "FetchingLateResults"
        ELSE state'.tag = "Error" /\ trace' = trace

\* C18: the late-grading fetch is only ever started with a penalty fraction p, 0 <= p <= 1,
\* and two well-formed deadlines: on Enter in LateGradingInput a penalty input that is not
\* a number in 0..100, or an on-time or late date or time that does not parse, moves the
\* UI to the Error state and no collaborator call is made; any other form starts the fetch.
C18_OnlyValidFormStartsFetch == [](C18_Started) /\ [][C18_Enter]_vars

\* the dates and times were fine, the penalty was not: Error, and nothing was called
C18_Witness ==
    /\ state = ErrorState("Invalid penalty percentage")
    /\ trace = <<>>

-----------------------------------------------------------------------------
(* C19 *)

\* the workflow file was parsed; the steps of its grading job
Extracted == pc = "workflow_parsed"
HasGradingJob == workflow_response.ok /\ AutogradingJobName \in DOMAIN workflow_response.val.jobs
GradingSteps == workflow_response.val.jobs[AutogradingJobName].steps

\* the step refers to the autograding action and has an identifier and a max-score
C19_Graded(step) ==
    /\ step.uses = Some(AutograderUses)
    /\ step.id # None
    /\ step.with # None
    /\ Unwrap(step.with).max_score # None

\* ... and a test-name
C19_GradedAndNamed(step) == C19_Graded(step) /\ Unwrap(step.with).test_name # None

\* the declaration a step yields
C19_DeclarationOf(step) ==
    [name |-> step.name, id |-> Unwrap(step.id), max_score |-> Unwrap(Unwrap(step.with).max_score)]

\* defs holds the declarations of the steps at the places kept, in the order of the places
C19_OnePerPlace(defs, steps, kept) ==
    /\ Len(defs) = Cardinality(kept)
    /\ \A i \in kept :
          defs[Cardinality({j \in kept : j <= i})] = C19_DeclarationOf(steps[i])

\* C19 as stated: extraction emits exactly one declaration, in file order, for every step
\* of the grading job whose action reference contains the autograding marker and that has
\* both an identifier and a numeric max-score; every other step is skipped without error.
C19_Original ==
    (Extracted /\ HasGradingJob) =>
        LET kept == {i \in 1..Len(GradingSteps) : C19_Graded(GradingSteps[i])}
        IN IF kept = {} THEN ret # "Ok"
           ELSE ret = "Ok" /\ C19_OnePerPlace(test_definitions, GradingSteps, kept)

\* C19, amended: extraction emits exactly one declaration, in file order, for every step
\* of the grading job whose action reference contains the autograding marker and that has
\* an identifier, a numeric max-score AND a test-name parameter; steps without the marker,
\* or with the marker but lacking the identifier, the max-score or the test-name, are
\* skipped without error.
C19_OnePerNamedGradedStep ==
    (Extracted /\ HasGradingJob) =>
        LET kept == {i \in 1..Len(GradingSteps) : C19_GradedAndNamed(GradingSteps[i])}
        IN IF kept = {} THEN ret # "Ok"
           ELSE ret = "Ok" /\ C19_OnePerPlace(test_definitions, GradingSteps, kept)

\* a kept step after a step that has the marker, an identifier and a max-score but no
\* test-name, which was skipped
C19_Witness ==
    /\ Extracted
    /\ HasGradingJob
    /\ ret = "Ok"
    /\ Len(GradingSteps) = 2
    /\ Len(test_definitions) = 1
    /\ C19_Graded(GradingSteps[1])
    /\ test_definitions[1].name = GradingSteps[2].name

-----------------------------------------------------------------------------
(* C20 *)

\* C20: extraction fails with the missing-grading-job error exactly when the workflow has
\* no job named run-autograding-tests, fails with the no-tests-found error exactly when
\* that job exists and none of its steps is kept, and never returns an empty list.
C20_ExtractionErrors ==
    (Extracted /\ workflow_response.ok) =>
        /\ ret = JobNotFound <=> ~HasGradingJob
        /\ ret = NoTestsFound <=>
              (HasGradingJob /\ \A i \in 1..Len(GradingSteps) :
                                   ~C19_GradedAndNamed(GradingSteps[i]))
        /\ ret \in {"Ok", JobNotFound, NoTestsFound}
        /\ ret = "Ok" => test_definitions # <<>>

\* the grading job is there, with steps, and none of them is kept
C20_Witness ==
    /\ Extracted
    /\ HasGradingJob
    /\ GradingSteps # <<>>
    /\ ret = NoTestsFound
    /\ \E i \in 1..Len(GradingSteps) : GradingSteps[i].uses = Some(AutograderUses)

-----------------------------------------------------------------------------
(* C21 *)

\* the requests for the workflow file made so far, as places of trace
FileReads == {i \in 1..Len(trace) : trace[i].op = "get_file_contents"}
\* the places of trace that concern a roster entry: a call for it, or its progress event
StudentPlaces == {i \in 1..Len(trace) : trace[i].index # 0}
\* the batch is in its loop over the roster, or past it with Ok
InLoop == pc \in {"loop", "list_runs", "list_jobs", "score_tests", "get_logs"}
          \/ (pc = "done" /\ index > 0)
\* the test names of a StudentResult, in their order
TestNamesOf(r) == [i \in 1..Len(r.tests) |-> r.tests[i].key]
\* s holds no "/"
NoSlash(s) == \A i \in 1..Len(s) : s[i] # "/"
\* the repository <<owner, name>> is what the url ends with, trailing "/" apart
C21_NamedByUrl(repository, url) ==
    \E k \in 0..Len(url) :
        /\ \A m \in (k + 1)..Len(url) : url[m] = "/"
        /\ SubSeq(url, 1, k) = SubSeq(url, 1, k - Len(repository[1] \o <<"/">> \o repository[2]))
                               \o repository[1] \o <<"/">> \o repository[2]
        /\ NoSlash(repository[1]) /\ NoSlash(repository[2])
        /\ repository[2] # <<>>
\* the repository <<owner, name>> is what the identifier begins with
C21_NamedByIdentifier(repository, full_name) ==
    IF C3_WellFormed(full_name)
    THEN /\ NoSlash(repository[1]) /\ NoSlash(repository[2])
         /\ LET front == repository[1] \o <<"/">> \o repository[2]
            IN /\ SubSeq(full_name, 1, Len(front)) = front
               /\ (Len(full_name) > Len(front) => full_name[Len(front) + 1] = "/")
    ELSE repository = << <<>>, <<>> >>

C21_ExtractedOnce ==
    /\ Cardinality(FileReads) <= 1
    /\ \A i \in FileReads, j \in StudentPlaces : i < j
    /\ InLoop => Cardinality(FileReads) = 1
    /\ \A i \in FileReads :
          IF IsSome(assignment_response.val.starter_code_url)
          THEN C21_NamedByUrl(trace[i].repo, Unwrap(assignment_response.val.starter_code_url))
          ELSE C21_NamedByIdentifier(trace[i].repo, accepted_assignments[1].full_name)
    /\ \A i, j \in 1..Len(results) : TestNamesOf(results[i]) = TestNamesOf(results[j])
    /\ \A i \in 1..Len(results) :
          /\ \A k \in 1..Len(test_definitions) :
                \E t \in 1..Len(results[i].tests) :
                    results[i].tests[t].key = test_definitions[k].name
          /\ \A t, u \in 1..Len(results[i].tests) :
                t < u =>
                    \E k \in 1..Len(test_definitions) :
                        /\ test_definitions[k].name = results[i].tests[t].key
                        /\ \A m \in 1..k : test_definitions[m].name # results[i].tests[u].key

C21_ListUnchanged == InLoop => test_definitions' = test_definitions

\* C21: the workflow file is asked for at most once per grading run, before anything is
\* done for any roster entry, and exactly once in a run that gets to its loop: from the
\* repository the starter url names when the assignment has one, otherwise from the one
\* the first roster entry's identifier names.  From the loop on the declaration list
\* never changes, and every StudentResult of the run has the names of the declarations
\* as its test names, in the order of their first declaration, so all results of a run
\* have the same test names in the same order.
C21_DeclarationsExtractedOnce == [](C21_ExtractedOnce) /\ [][C21_ListUnchanged]_vars

\* a run without starter repository is over with two results, whose tests differ in
\* what was awarded
C21_Witness ==
    /\ pc = "done"
    /\ assignment_response = Ok([starter_code_url |-> None])
    /\ Len(results) = 2
    /\ results[1].tests # results[2].tests
    /\ Cardinality(FileReads) = 1

-----------------------------------------------------------------------------
(* C22 *)

\* the roster entries handled so far: their resolution is over
Handled(k) == k <= index

\* C22: a roster entry whose identifier does not split on "/" into a non-empty owner
\* (the text before its first "/") and a non-empty name (the text after it, up to the
\* next "/") is failed without any collaborator call being made for it, at any time, and
\* gets no StudentResult; an entry whose identifier does split so is not failed on its
\* identifier: its resolution starts with list_workflow_runs.
C22_MalformedIdentifierFails ==
    \A k \in 1..Len(accepted_assignments) :
        IF C3_WellFormed(accepted_assignments[k].full_name)
        THEN Handled(k) => CallsFor("list_workflow_runs", k) # {}
        ELSE /\ StudentCalls(k) = {}
             /\ ResultsOf(k) = {}
             /\ (index = k /\ pc = "loop") => student_ret = "Err"

\* the batch is over: the first entry had a name but no owner, the second was resolved
C22_Witness ==
    /\ pc = "done"
    /\ Len(accepted_assignments) = 2
    /\ accepted_assignments[1].full_name = <<"/", "o">>
    /\ StudentCalls(1) = {}
    /\ Len(results) = 1

-----------------------------------------------------------------------------
(* C23 *)

\* the assignment has no starter repository and the first roster entry's identifier
\* does not split into a non-empty owner and a non-empty name
C23_MalformedReference ==
    /\ assignment_response = Ok([starter_code_url |-> None])
    /\ accepted_response.ok
    /\ accepted_response.val # <<>>
    /\ ~C3_WellFormed(accepted_response.val[1].full_name)

\* the run is past the point where the declarations are fetched
C23_PastExtraction ==
    pc \notin {"get_assignment", "list_accepted", "test_definitions",
               "fetch_results", "fetch_list_accepted", "fetch_test_definitions"}

\* C23 as stated: with no starter repository and a malformed identifier of the first
\* roster entry, the grading run aborts on that identifier: it has failed as soon as it
\* is past the extraction, no request for the workflow file was made, and nothing was
\* done for any student.
C23_AbortsOnIdentifier ==
    (C23_MalformedReference /\ C23_PastExtraction) =>
        /\ pc = "done" /\ ret = "Err"
        /\ FileReads = {}
        /\ C14_NoStudentTouched

-----------------------------------------------------------------------------
(* C24 *)

\* C24 as stated: the result shown at the end of a grading run carries the number of
\* scored students and the number of errored students, the latter being the roster size
\* less the former: ResultStats.errors is the number of students whose resolution failed.
C24_ErrorsCounted ==
    state.tag = "ResultsComplete" =>
        /\ state.stats.students_processed = Len(results)
        /\ state.stats.errors = Len(accepted_assignments) - state.stats.students_processed

-----------------------------------------------------------------------------
(* C26 *)

\* the IndexMap that a declaration list and the steps of one job give
RECURSIVE C26_Tests(_, _, _)
C26_Tests(defs, steps, map) ==
    IF defs = <<>> THEN map
    ELSE C26_Tests(Tail(defs), steps,
                   IndexMapInsert(map, defs[1].name, MakeTestResult(steps, defs[1])))

\* what the roster entry at place k resolves to, as its own identifier and the answers
\* given for its own repository determine it (and the declarations and the deadline,
\* shared by the batch): None for a failure, else the StudentResult
C26_Alone(k) ==
    LET student == accepted_assignments[k]
        target == IF runs_response[k].ok THEN TargetRun(runs_response[k].val, deadline)
                  ELSE None
        job == IF jobs_response[k].ok THEN FindJob(jobs_response[k].val) ELSE None
    IN IF ~C3_WellFormed(student.full_name) \/ ~IsSome(target) \/ ~IsSome(job) THEN None
       ELSE LET map == C26_Tests(test_definitions, Unwrap(job).steps, <<>>)
            IN Some(StudentResult(student, Unwrap(target), map,
                                  RefinedTotal(ProvisionalTotal(map), logs_response[k]),
                                  test_definitions))

\* what the first n roster entries resolve to, each alone, in roster order
RECURSIVE C26_AllAlone(_)
C26_AllAlone(n) ==
    IF n = 0 THEN <<>> ELSE C26_AllAlone(n - 1) \o C26_Alone(n)

\* C26: at every moment results holds, in roster order, exactly what each roster entry
\* handled so far resolves to alone, i.e. as a function of that entry and of the answers
\* for its own repository; and once the loop is entered every entry gets handled.  So
\* two batch runs over the same roster and declarations whose answers differ for one
\* student only (that student failing at any stage included) hold identical
\* StudentResults for every other student.
C26_SiblingIsolation ==
    /\ results = C26_AllAlone(index)
    /\ (pc = "done" /\ test_definitions # <<>>) => index = Len(accepted_assignments)

\* a batch of two is over: the first entry was resolved, the second had its runs listed
\* and failed at list_jobs_for_run
C26_Witness ==
    /\ pc = "done"
    /\ Len(accepted_assignments) = 2
    /\ Len(results) = 1
    /\ results[1].username = Username(accepted_assignments[1])
    /\ runs_response[2].ok
    /\ ~jobs_response[2].ok

-----------------------------------------------------------------------------
(* C27 *)

\* the pages a listing has requested so far, and the limit the claim gives its method
C27_PagesRequested == {trace[i].page : i \in {j \in DOMAIN trace : trace[j].op = "get"}}
C27_Limit ==
    IF endpoint = "list_accepted_assignments" THEN AcceptedPageLimit ELSE ClassroomPageLimit

\* the non-empty pages before the first empty one, up to the limit, in page order
C27_Expected ==
    LET n == IF page_responses.pages < C27_Limit THEN page_responses.pages ELSE C27_Limit
    IN Concat([p \in 1..n |-> PageItems(p)])

\* no page beyond the limit is ever requested and a returned listing is the concatenation
\* of the non-empty pages before the first empty page or the limit; the listing stopped
\* at an empty page or at the last page the limit allows; it fails only on a failed request
C27_StopsInOrder ==
    /\ C27_PagesRequested \subseteq 1..C27_Limit
    /\ (IsSome(list_ret) /\ Unwrap(list_ret).ok) =>
          /\ Unwrap(list_ret).val = C27_Expected
          /\ C27_PagesRequested = 1..(IF page_responses.pages < C27_Limit
                                      THEN page_responses.pages + 1 ELSE C27_Limit)
          /\ \/ ServerPage(page_responses, trace[Len(trace)].page) = <<>>
             \/ trace[Len(trace)].page = C27_Limit
    /\ (IsSome(list_ret) /\ ~Unwrap(list_ret).ok) =>
          \E p \in DOMAIN page_responses.errors :
              /\ page_responses.errors[p] # <<>>
              /\ trace[Len(trace)].page = p

\* C27: list_classrooms and list_assignments stop at the first empty page or after 10
\* pages, list_accepted_assignments at the first empty page or after 100 pages, each
\* returns the concatenation in page order of the non-empty pages fetched, and each call
\* does return
C27_PaginatedReadsTerminate == [](C27_StopsInOrder) /\ <>(IsSome(list_ret))

\* list_accepted_assignments returned the 100 pages it fetched while the API held a
\* further non-empty page
C27_Witness ==
    /\ endpoint = "list_accepted_assignments"
    /\ page_responses.pages = AcceptedPageLimit + 1
    /\ IsSome(list_ret)
    /\ Unwrap(list_ret).ok
    /\ Len(Unwrap(list_ret).val) = 150

\* list_assignments returned the pages before an empty page that further pages follow
C27_WitnessEmptyPage ==
    /\ endpoint = "list_assignments"
    /\ page_responses.pages = 2
    /\ page_responses.more
    /\ IsSome(list_ret)
    /\ Unwrap(list_ret).ok
    /\ Len(Unwrap(list_ret).val) = 3

-----------------------------------------------------------------------------
(* C28 *)

\* the places of trace where page p was requested, and the errors set for page p
C28_Attempts(p) == {i \in DOMAIN trace : trace[i].op = "get" /\ trace[i].page = p}
C28_Errors(p) ==
    IF p \in DOMAIN page_responses.errors THEN page_responses.errors[p] ELSE <<>>

\* the listing is through with page p: it went on to a later page or it returned
C28_Through(p) == C28_Attempts(p) # {} /\ (page > p \/ IsSome(list_ret))

\* C28: in list_accepted_assignments a page is attempted at most 3 times; a sleep of 2
\* seconds, and nothing else, separates two attempts at one page; the attempts a page
\* gets depend on its own failures only (a page reached after failures of earlier pages
\* still gets 3); and the listing returns an error, never a list, exactly when the third
\* attempt at a page failed, whatever was gathered from earlier pages.
C28_BoundedRetry ==
    endpoint = "list_accepted_assignments" =>
        /\ \A p \in 1..page :
              /\ Cardinality(C28_Attempts(p)) <= 3
              /\ C28_Through(p) =>
                    Cardinality(C28_Attempts(p)) =
                        (IF Len(C28_Errors(p)) >= 3 THEN 3 ELSE Len(C28_Errors(p)) + 1)
        /\ \A i \in DOMAIN trace :
              /\ trace[i].op = "sleep" =>
                    /\ trace[i].secs = 2
                    /\ i > 1
                    /\ trace[i - 1].op = "get"
                    /\ i < Len(trace) => trace[i + 1] = trace[i - 1]
              /\ (trace[i].op = "get" /\ i < Len(trace) /\ trace[i + 1].op = "get") =>
                    trace[i + 1].page = trace[i].page + 1
        /\ IsSome(list_ret) =>
              (~Unwrap(list_ret).ok <=>
                  \E p \in 1..page : C28_Through(p) /\ Len(C28_Errors(p)) >= 3)
        /\ (IsSome(list_ret) /\ ~Unwrap(list_ret).ok) =>
              Unwrap(list_ret).val \in {<<AfterRetries, kind>> : kind \in GetErrors}

\* page 1 was read at its third attempt, page 2 failed three times: the listing returned
\* an error although it had gathered the items of page 1
C28_Witness ==
    /\ endpoint = "list_accepted_assignments"
    /\ Cardinality(C28_Attempts(1)) = 3
    /\ Cardinality(C28_Attempts(2)) = 3
    /\ all_items = PageItems(1)
    /\ IsSome(list_ret)
    /\ ~Unwrap(list_ret).ok

-----------------------------------------------------------------------------
(* C29 *)

\* the non-retryable errors: a non-success status, an undecodable body
C29_NonRetryable == {"status", "decode"}

\* C29: a request that met a non-retryable error is not repeated, and the call returns
\* that error after the single attempt.  list_accepted_assignments, the only place of
\* the program that retries, repeats the request whatever the error is;
\* fetch_student_results never repeats a request, whatever the error is.
C29_RetryByKind ==
    \A i \in DOMAIN trace :
        (/\ trace[i].op = "get"
         /\ Requested(trace[i].page) > 0
         /\ C28_Errors(trace[i].page) # <<>>
         /\ C28_Errors(trace[i].page)[1] \in C29_NonRetryable)
        => /\ Cardinality(C28_Attempts(trace[i].page)) = 1
           /\ IsSome(list_ret)
           /\ ~Unwrap(list_ret).ok

\* what the code does instead: every kind of error gets the same attempts
C29_AnyErrorRetried ==
    (endpoint = "list_accepted_assignments" /\ IsSome(list_ret)) =>
        \A p \in C27_PagesRequested :
            Cardinality(C28_Attempts(p)) =
                (IF Len(C28_Errors(p)) >= 3 THEN 3 ELSE Len(C28_Errors(p)) + 1)

-----------------------------------------------------------------------------
(* C30 *)

\* the declaration names in extraction order, each once
RECURSIVE C30_Names(_, _)
C30_Names(defs, seen) ==
    IF defs = <<>> THEN seen
    ELSE C30_Names(Tail(defs),
                   IF \E i \in DOMAIN seen : seen[i] = defs[1].name
                   THEN seen ELSE Append(seen, defs[1].name))

C30_Columns == C30_Names(test_definitions, <<>>)

\* the points awarded that student r holds for the test called name
C30_Awarded(r, name) ==
    LET i == CHOOSE j \in DOMAIN r.tests : r.tests[j].key = name
    IN r.tests[i].value.points_awarded

\* the first three fields and the test columns of the header and of the record of r
C30_HeadOfHeader(row) ==
    /\ Len(row) = Len(C30_Columns) + 6
    /\ row[1] = "student_username"
    /\ row[2] = "student_repo_url"
    /\ row[3] = "workflow_run_timestamp"
    /\ \A i \in DOMAIN C30_Columns : row[3 + i] = C30_Columns[i]
    /\ row[Len(row)] = "percentage"
C30_HeadOfRecord(row, r) ==
    /\ Len(row) = Len(C30_Columns) + 6
    /\ row[1] = r.username
    /\ row[2] = r.repo_url
    /\ row[3] = ToRfc3339(r.workflow_run_timestamp)
    /\ \A i \in DOMAIN C30_Columns : row[3 + i] = ToString(C30_Awarded(r, C30_Columns[i]))
    /\ row[Len(row)] = PercentageText(r.total_awarded, r.total_available)

\* the file was written for the results of this run
C30_Exported == IsSome(csv_file) /\ pc = "done"

\* C30 as stated: after the test columns come the total available, then the total
\* awarded, then the percentage, in the header and in every record
C30_AvailableBeforeAwarded ==
    C30_Exported =>
        LET rows == Unwrap(csv_file)
            n == Len(C30_Columns)
        IN /\ Len(rows) = Len(results) + 1
           /\ C30_HeadOfHeader(rows[1])
           /\ rows[1][n + 4] = "total_points_available"
           /\ rows[1][n + 5] = "total_points_awarded"
           /\ \A k \in DOMAIN results :
                 /\ C30_HeadOfRecord(rows[k + 1], results[k])
                 /\ rows[k + 1][n + 4] = ToString(results[k].total_available)
                 /\ rows[k + 1][n + 5] = ToString(results[k].total_awarded)

\* C30 (amended): each record lists student handle, repo URL, run timestamp, one
\* awarded-points column per declaration name in extraction order, total awarded, total
\* available, percentage; the header row and every data row have the same number of
\* fields in that same order.
C30_FieldOrder ==
    C30_Exported =>
        LET rows == Unwrap(csv_file)
            n == Len(C30_Columns)
        IN /\ Len(rows) = Len(results) + 1
           /\ C30_HeadOfHeader(rows[1])
           /\ rows[1][n + 4] = "total_points_awarded"
           /\ rows[1][n + 5] = "total_points_available"
           /\ \A k \in DOMAIN results :
                 /\ C30_HeadOfRecord(rows[k + 1], results[k])
                 /\ rows[k + 1][n + 4] = ToString(results[k].total_awarded)
                 /\ rows[k + 1][n + 5] = ToString(results[k].total_available)

\* two students were exported, with two test columns, and one of them was awarded less
\* than is available
C30_Witness ==
    /\ C30_Exported
    /\ Len(results) = 2
    /\ Len(C30_Columns) = 2
    /\ results[2].total_awarded < results[2].total_available
    /\ Unwrap(csv_file)[3][6] # Unwrap(csv_file)[3][7]

-----------------------------------------------------------------------------
(* C31 *)

\* the statistics are there
C31_Calculated == pc = "done" /\ state.tag = "ResultsComplete"

\* the product of the denominators of the percentages: total_available, or 1 for 0
RECURSIVE C31_Denominator(_)
C31_Denominator(rs) ==
    IF rs = <<>> THEN 1
    ELSE (IF rs[1].total_available > 0 THEN rs[1].total_available ELSE 1)
         * C31_Denominator(Tail(rs))

\* the sum of the percentages 100 * awarded / available, times C31_Denominator(results)
RECURSIVE C31_Numerator(_, _)
C31_Numerator(rs, d) ==
    IF rs = <<>> THEN 0
    ELSE (IF rs[1].total_available > 0
          THEN (100 * rs[1].total_awarded * d) \div rs[1].total_available ELSE 0)
         + C31_Numerator(Tail(rs), d)

\* x is the percentage of result r: x = 100 * awarded / available, or 0
C31_IsScore(x, r) ==
    IF r.total_available > 0
    THEN x.num * r.total_available = 100 * r.total_awarded * x.den
    ELSE x.num = 0

\* how many results have a percentage at most / at least that of results[i]
C31_AtMost(i) ==
    Cardinality({j \in DOMAIN results : FracLeq(ScoreOf(results[j]), ScoreOf(results[i]))})
C31_AtLeast(i) ==
    Cardinality({j \in DOMAIN results : FracLeq(ScoreOf(results[i]), ScoreOf(results[j]))})

\* C31: total_students is the number of results, total_tests the number of tests of the
\* first result (0 for an empty batch); the average times the count is the sum of the
\* percentages 100 * total_awarded / total_available (0 where nothing is available); the
\* median is the middle value of the percentages in ascending order, the mean of the two
\* middle values for an even count; both are 0 for an empty batch.
C31_Statistics ==
    C31_Calculated =>
        LET stats == state.stats
            n == Len(results)
            d == C31_Denominator(results)
        IN /\ stats.total_students = n
           /\ stats.total_tests = (IF n = 0 THEN 0 ELSE Len(results[1].tests))
           /\ stats.average_score.den > 0 /\ stats.median_score.den > 0
           /\ n = 0 => stats.average_score.num = 0 /\ stats.median_score.num = 0
           /\ n > 0 =>
                 stats.average_score.num * n * d
                     = C31_Numerator(results, d) * stats.average_score.den
           /\ (n > 0 /\ n % 2 = 1) =>
                 \E i \in DOMAIN results :
                     /\ C31_IsScore(stats.median_score, results[i])
                     /\ 2 * C31_AtMost(i) > n
                     /\ 2 * C31_AtLeast(i) > n
           /\ (n > 0 /\ n % 2 = 0) =>
                 \E i, j \in DOMAIN results :
                     /\ i # j
                     /\ FracLeq(ScoreOf(results[i]), ScoreOf(results[j]))
                     /\ 2 * C31_AtMost(i) >= n
                     /\ 2 * C31_AtLeast(j) >= n
                     /\ \A k \in DOMAIN results \ {i, j} :
                           \/ FracLeq(ScoreOf(results[k]), ScoreOf(results[i]))
                           \/ FracLeq(ScoreOf(results[j]), ScoreOf(results[k]))
                     /\ LET a == ScoreOf(results[i])
                            b == ScoreOf(results[j])
                        IN 2 * stats.median_score.num * a.den * b.den
                               = (a.num * b.den + b.num * a.den) * stats.median_score.den

\* three results out of order, one with nothing available: the median is the 75 percent
\* of the first, the average is not
C31_Witness ==
    /\ C31_Calculated
    /\ Len(results) = 3
    /\ results[1].total_awarded = 15 /\ results[1].total_available = 20
    /\ results[2].total_available = 0
    /\ results[3].total_awarded = 15 /\ results[3].total_available = 15
    /\ state.stats.median_score = [num |-> 75, den |-> 1]
    /\ state.stats.average_score # state.stats.median_score

-----------------------------------------------------------------------------
(* C32 *)

\* the grading run of the user interface went through its roster: the roster was not
\* empty, the declarations were extracted, every student was handled
C32_RunOver ==
    /\ pc = "done"
    /\ accepted_assignments # <<>>
    /\ test_definitions # <<>>
    /\ index = Len(accepted_assignments)

\* C32: a grading run started from the user interface over a non-empty roster with
\* extractable declarations ends with the application in the ResultsComplete state,
\* whichever students failed, all of them included.
C32_EndsInResultsComplete == C32_RunOver => state.tag = "ResultsComplete"

\* what the code does: ResultsComplete exactly when one student at least was resolved;
\* otherwise export_to_csv fails, fetch_results returns its error and the state stays
\* the last FetchingResults
C32_CompleteUnlessAllFail ==
    C32_RunOver =>
        IF results # <<>>
        THEN state.tag = "ResultsComplete" /\ ret = "Ok"
        ELSE state.tag = "FetchingResults" /\ ret = "Err" /\ csv_file = None

-----------------------------------------------------------------------------
(* C34 *)

\* the collaborator calls made for roster position k, in the order they were made, each
\* as <<operation, run or job id>>
C34_Made(k) ==
    LET calls == SelectSeq(trace, LAMBDA e : e.op # "progress" /\ e.index = k)
    IN [i \in 1..Len(calls) |-> <<calls[i].op, calls[i].id>>]

\* the jobs of position k named exactly run-autograding-tests, by place in the list
C34_NamedJobs(k) ==
    {i \in 1..Len(jobs_response[k].val) :
        jobs_response[k].val[i].name = "run-autograding-tests"}

\* the calls the chain of position k consists of (none for an identifier that does not
\* name a repository): listRuns; then, when a run was
\* selected, listJobs for that run; then, when the jobs were listed and hold a job of the
\* exact name, getJobLogText for the first such job
C34_Chain(k) ==
    LET selected == IF runs_response[k].ok THEN TargetRun(runs_response[k].val, deadline)
                    ELSE None
    IN IF ~C3_WellFormed(accepted_assignments[k].full_name) THEN <<>>
       ELSE <<<<"list_workflow_runs", 0>>>>
            \o (IF ~IsSome(selected) THEN <<>>
                ELSE <<<<"list_jobs_for_run", Unwrap(selected).id>>>>
                     \o (IF ~jobs_response[k].ok \/ C34_NamedJobs(k) = {} THEN <<>>
                         ELSE <<<<"get_job_logs",
                                  jobs_response[k].val[MinOf(C34_NamedJobs(k))].id>>>>))

-----------------------------------------------------------------------------
(* C37 *)

\* the list_workflow_runs calls made so far for the student at roster position k
C37_Requests(k) ==
    SelectSeq(trace, LAMBDA e : e.op = "list_workflow_runs" /\ e.index = k)

\* the places of the repository's list that its first page shows
C37_Shown(k) ==
    1..(IF Len(repository_runs[k]) < RunsPerPage THEN Len(repository_runs[k])
        ELSE RunsPerPage)

\* C37: the run selection of a student considers only the runs of one answer of
\* list_workflow_runs, which has at most RunsPerPage runs: at most one request is made for
\* a student in a pass (exactly one once the student's chain has gone past it), and the
\* run selected is among the first RunsPerPage runs the repository holds, never a run
\* beyond its first page.
C37_OnePageOfRuns ==
    /\ \A k \in 1..Len(accepted_assignments) :
           /\ Len(C37_Requests(k)) <= 1
           /\ (k <= index \/ (k = index + 1 /\ pc \in {"list_jobs", "score_tests", "get_logs"}))
                  => Len(C37_Requests(k)) = 1
           /\ runs_response[k].ok => Len(runs_response[k].val) <= RunsPerPage
    /\ (pc \in {"list_jobs", "score_tests", "get_logs"} /\ IsSome(run))
           => \E i \in C37_Shown(index + 1) : repository_runs[index + 1][i] = Unwrap(run)

\* a run is selected from a repository that holds more than a page of runs, and it is
\* not the run the selection would take if it saw them all
C37_Witness ==
    /\ pc = "list_jobs"
    /\ IsSome(run)
    /\ Len(repository_runs[index + 1]) > RunsPerPage
    /\ TargetRun(repository_runs[index + 1], deadline) # run

-----------------------------------------------------------------------------
(* C38 *)

\* C38: in every combined record, for every penalty fraction from 0 to 1, finalScore is at
\* least the on-time total: a late attempt never lowers the final score below what the
\* on-time run earned.
C38_NeverBelowOnTime ==
    Combined =>
        \A rec \in Records : rec.final_score >= rec.on_time_result.total_awarded

\* what holds instead: finalScore is below the on-time total only for a late total that
\* exceeds it under a penalty above 0, and then it is the penalised late total
C38_BelowOnlyWhenPenalised ==
    Combined =>
        \A rec \in Records :
            rec.final_score < rec.on_time_result.total_awarded
                => /\ rec.late_result.total_awarded > rec.on_time_result.total_awarded
                   /\ late_penalty > 0
                   /\ rec.final_score = PenalisedScore(rec.late_result.total_awarded,
                                                       late_penalty)

-----------------------------------------------------------------------------
(* C39 *)

\* the autograding steps of a list of document steps
C39_AutogradingSteps(steps) ==
    SelectSeq(steps, LAMBDA st : IsSome(st.uses) /\ ContainsMarker(Unwrap(st.uses)))

\* the document with nothing but the autograding steps of the autograding job
C39_Stripped(doc) ==
    [jobs |-> [j \in DOMAIN doc.jobs \cap {AutogradingJobName} |->
        [steps |-> IF doc.jobs[j].steps = None THEN None
                   ELSE Some(C39_AutogradingSteps(Unwrap(doc.jobs[j].steps)))]]]

\* parse_workflow has returned what it returns for the stripped document: it fails in
\* both cases or it emits the same declarations
C39_SameAsStripped ==
    LET expected == ParseWorkflow(FromStr(C39_Stripped(Unwrap(yaml_content))))
    IN /\ (ret = "Ok") = expected.ok
       /\ expected.ok => test_definitions = expected.val

\* C39: the outcome of parse_workflow depends only on the autograding steps of the
\* run-autograding-tests job: whatever the other steps of that job have or lack (a name
\* included) and whatever the other jobs hold, parse_workflow fails or succeeds, and
\* emits the declarations, as it does without them.
C39_OnlyAutogradingSteps ==
    (pc = "workflow_parsed" /\ IsSome(yaml_content)) => C39_SameAsStripped

\* what holds instead: so it is for the documents that serde_yaml can read as a whole
C39_OnceDeserialized ==
    (pc = "workflow_parsed" /\ IsSome(yaml_content) /\ workflow_response.ok)
        => C39_SameAsStripped

-----------------------------------------------------------------------------
(* C33 *)

C33_CollaboratorCalls ==
    {"get_assignment", "list_accepted_assignments", "get_file_contents",
     "list_workflow_runs", "list_jobs_for_run", "get_job_logs"}

\* this step makes a collaborator call of the fetch
C33_CallMade ==
    /\ Len(trace') = Len(trace) + 1
    /\ trace'[Len(trace')].op \in C33_CollaboratorCalls

\* C33: during a single-deadline fetch every FetchingResults state written to App::state
\* is drawn by the event loop before the next collaborator call of the fetch starts: when
\* a call is made, the frame on the screen shows the progress state written before it;
\* and a key pressed during the fetch is handled before the fetch ends.
C33_RenderedAndResponsive ==
    /\ [][(C33_CallMade /\ state.tag = "FetchingResults") => screen = Some(state)]_vars
    /\ [][(pc # "done" /\ pc' = "done") =>
             \A i \in 1..Len(key_events) : key_events[i].during # "FetchingResults"]_vars

\* what holds instead: no frame ever shows a FetchingResults state, and no key is taken
\* from the terminal while the fetch runs
C33_NeverDrawn == IsSome(screen) => Unwrap(screen).tag # "FetchingResults"
C33_NoKeyTaken ==
    [][state.tag = "FetchingResults" => Len(key_events') >= Len(key_events)]_vars

-----------------------------------------------------------------------------
(* C35 *)

\* selected_index is an index of the list shown, or of the fixed menu
C35_IndexValid ==
    /\ state.tag = "ClassroomSelection" => state.selected_index < Len(state.classrooms)
    /\ state.tag = "AssignmentSelection" => state.selected_index < Len(state.assignments)
    /\ state.tag = "AssignmentOptions" => state.selected_index \in 0..2
    /\ state.tag = "GradingModeSelection" => state.selected_index \in 0..1

\* C35: in every reachable ClassroomSelection, AssignmentSelection, AssignmentOptions and
\* GradingModeSelection state, whatever keys are pressed and whatever the collaborators
\* answer (an empty list of assignments included), selected_index is a valid index of the
\* list shown (0..2 and 0..1 for the two fixed menus), and Enter never indexes outside
\* the list.
C35_SelectionInRange == C35_IndexValid /\ pc # "panicked"

\* what holds instead: so it is but for the assignment screen of an empty list, and the
\* only panic is Enter on that screen
C35_InRangeUnlessEmpty ==
    /\ (state.tag = "AssignmentSelection" /\ state.assignments = <<>>) \/ C35_IndexValid
    /\ pc = "panicked" => assignments_response = Ok(<<>>)

-----------------------------------------------------------------------------
(* C36 *)

\* the keys the arm of a state names (Char(c) stands for every character)
C36_Bound(tag) ==
    CASE tag = "ClassroomSelection" -> {"q", "Up", "Down", "Enter"}
      [] tag \in {"AssignmentSelection", "AssignmentOptions", "GradingModeSelection"} ->
            {"q", "Esc", "Up", "Down", "Enter"}
      [] tag = "DeadlineInput" -> {"q", "Esc", "Tab", "Backspace", "Enter"} \cup CharKeys
      [] tag = "LateGradingInput" ->
            {"q", "Esc", "Tab", "BackTab", "Backspace", "Enter"} \cup CharKeys
      [] tag \in {"ResultsComplete", "Error"} -> {"q", "Enter", "Esc"}
      [] OTHER -> {}

C36_Waiting ==
    {"LoadingClassrooms", "LoadingAssignments", "FetchingResults", "FetchingLateResults"}

\* this step is a call of handle_key_event
C36_Handles == pc = "poll" /\ key_events # <<>> /\ pc' # "poll"

\* C36: handle_key_event leaves App::state unchanged for any key received in
\* LoadingClassrooms, LoadingAssignments, FetchingResults or FetchingLateResults and for
\* any key the arm of the current state does not name; and the LoadingClassrooms
\* placeholder is never the state left by a call that began in another state and returned
\* without quitting, be it at once or after the fetch it ran.
C36_KeyFrame ==
    /\ [][C36_Handles =>
            /\ state.tag \in C36_Waiting => (state' = state /\ pc' = "sleep")
            /\ Head(key_events).code \notin C36_Bound(state.tag) => state' = state
            /\ (pc' = "sleep" /\ state' = LoadingClassrooms) => state = LoadingClassrooms]_vars
    /\ [][(pc = "done" /\ pc' \in {"sleep", "failed"}) => state' # LoadingClassrooms]_vars

\* a key was handled while a fetch was shown as running, and the state is still that
C36_Witness ==
    /\ pc = "sleep"
    /\ state.tag = "FetchingResults"
    /\ pressed >= 1
    /\ key_events = <<>>

=============================================================================
